---------------------------- MODULE Spec2Model ----------------------------
(***************************************************************************)
(* A model of segmented-input: the range resolver (getSegmentRanges), the  *)
(* cursor mapper (getCursorSegment) and the SegmentedInput controller.     *)
(*                                                                         *)
(* Strings are sequences of UTF-16 code units; a code unit is written as a *)
(* one-element TLA+ string ("1", "-", ...).  U+200B is the unit ZWS and    *)
(* the calendar emoji U+1F4C5 is the surrogate pair <<HI, LO>>.  Offsets   *)
(* are 0-based, as in the source.                                          *)
(***************************************************************************)
EXTENDS Integers, Sequences, FiniteSets, TLC

VARIABLES
  cfg,                \* the preset the instance was constructed with
  segments,           \* #segments (options.segments of the preset)
  text,               \* input.value
  activeSegment,      \* #activeSegment
  segmentBuffer,      \* #segmentBuffer
  placeholderJustSet, \* #placeholderJustSet
  pendingClickX,      \* #pendingClickX (<<>> is null, <<x>> a clientX)
  customValidity,     \* the message last given to input.setCustomValidity
  selection,          \* the input's selection span <<start, end>>
  actionClass,        \* whether input.classList holds #actionClass
  timers,             \* callbacks queued with setTimeout(..., 0), oldest first
  focused,            \* whether the host has given the input focus
  attached,           \* whether the event listeners are registered
  emitted,            \* what the last handler emitted or called on the host
  parsed,             \* the strings the last handler handed to options.parse
  formattedValues,    \* the edited value arrays the last handler handed to format
  nEvents,            \* events delivered and methods called so far
  fnArgs,             \* inputs of the exported pure function under check
  fnRet               \* result of the last pure call or public read (<<x>>)

instanceVars == <<cfg, segments, text, activeSegment, segmentBuffer, placeholderJustSet,
                  pendingClickX, customValidity, selection, actionClass, timers,
                  focused, attached, emitted, parsed, formattedValues, nEvents>>

vars == <<instanceVars, fnArgs, fnRet>>

NONE == <<>>   \* "no result yet"; a result x is held as <<x>>

\* ------------------------------------------------------------------------
\* Bounds of the pure-function specifications
\* ------------------------------------------------------------------------
MaxTextLen == 5   \* longest normalized string drawn for getSegmentRanges
MaxValLen == 2    \* longest segment value drawn
MaxSegs == 2      \* most segment values drawn
MaxOff == 3       \* largest range offset drawn for getCursorSegment
MaxRanges == 3    \* longest range list drawn for getCursorSegment

Alphabet == {"a", "b"}

\* ------------------------------------------------------------------------
\* JavaScript string primitives
\* ------------------------------------------------------------------------
Min(S) == CHOOSE x \in S : \A y \in S : x <= y
Max(S) == CHOOSE x \in S : \A y \in S : x >= y

Clamp(x, lo, hi) == IF x < lo THEN lo ELSE IF x > hi THEN hi ELSE x

\* String.prototype.indexOf(sub, from): lowest offset k >= from at which sub
\* occurs in s, -1 when there is none; the empty string occurs everywhere.
IndexOf(s, sub, from) ==
  LET n == Len(s)
      m == Len(sub)
      f == Clamp(from, 0, n)
      hits == {k \in f..(n - m) : \A j \in 1..m : s[k + j] = sub[j]}
  IN IF hits = {} THEN -1 ELSE Min(hits)

\* String.prototype.slice(a, b) for non-negative a, b.
Slice(s, a, b) ==
  LET n == Len(s)
      lo == Clamp(a, 0, n)
      hi == Clamp(b, 0, n)
  IN IF lo >= hi THEN <<>> ELSE SubSeq(s, lo + 1, hi)

\* All strings over alphabet A of length at most n.
StrsUpTo(A, n) == UNION {[1..k -> A] : k \in 0..n}

\* String.prototype.split(sep) for a one-unit separator; "" splits to <<"">>.
RECURSIVE Split(_, _)
SplitAt(s, sep, k) ==
  IF k = -1 THEN <<s>>
  ELSE <<Slice(s, 0, k)>> \o Split(Slice(s, k + 1, Len(s)), sep)

Split(s, sep) == SplitAt(s, sep, IndexOf(s, <<sep>>, 0))

\* while (parts.length < n) parts.push(fill); parts.slice(0, n)
Fill(parts, n, fill) ==
  IF Len(parts) >= n THEN SubSeq(parts, 1, n)
  ELSE parts \o [i \in 1..(n - Len(parts)) |-> fill]

\* The offsets of successive stops in str: the first chars[1] at or after
\* from, the first chars[2] after it, and so on; -1 from the first stop
\* that is missing.
RECURSIVE Stops(_, _, _)
StopsFrom(str, at, rest) ==
  <<at>> \o (IF at = -1 THEN [i \in 1..Len(rest) |-> -1] ELSE Stops(str, at + 1, rest))

Stops(str, from, chars) ==
  IF chars = <<>> THEN <<>>
  ELSE StopsFrom(str, IndexOf(str, <<Head(chars)>>, from), Tail(chars))

\* Array.prototype.join(sep) for a one-unit separator.
RECURSIVE Join(_, _)
Join(values, sep) ==
  IF Len(values) = 0 THEN <<>>
  ELSE IF Len(values) = 1 THEN values[1]
  ELSE values[1] \o <<sep>> \o Join(Tail(values), sep)

\* String.prototype.padStart(n, c) for a one-unit pad c.
RECURSIVE PadStart(_, _, _)
PadStart(s, n, c) == IF Len(s) >= n THEN s ELSE PadStart(<<c>> \o s, n, c)

\* The code units matched by \s and removed by trim(); U+200B is not one.
Whitespace == {" "}

RECURSIVE TrimEnd(_)
TrimEnd(s) ==
  IF Len(s) > 0 /\ s[Len(s)] \in Whitespace THEN TrimEnd(SubSeq(s, 1, Len(s) - 1)) ELSE s

RECURSIVE TrimStart(_)
TrimStart(s) ==
  IF Len(s) > 0 /\ s[1] \in Whitespace THEN TrimStart(Tail(s)) ELSE s

Trim(s) == TrimStart(TrimEnd(s))

Digits == {"0", "1", "2", "3", "4", "5", "6", "7", "8", "9"}

\* /^\d+$/.test(s)
AllDigits(s) == Len(s) > 0 /\ \A j \in 1..Len(s) : s[j] \in Digits

DigitChars == <<"0", "1", "2", "3", "4", "5", "6", "7", "8", "9",
                "A", "B", "C", "D", "E", "F">>

LowerHex == <<"a", "b", "c", "d", "e", "f">>

\* The value of code unit c as a digit, or 99 when it is no digit.
DigitValue(c) ==
  IF \E d \in 1..16 : DigitChars[d] = c
  THEN (CHOOSE d \in 1..16 : DigitChars[d] = c) - 1
  ELSE IF \E d \in 1..6 : LowerHex[d] = c
       THEN (CHOOSE d \in 1..6 : LowerHex[d] = c) + 9
       ELSE 99

RECURSIVE DigitsToInt(_, _, _)
DigitsToInt(s, radix, acc) ==
  IF Len(s) = 0 \/ DigitValue(s[1]) >= radix THEN acc
  ELSE DigitsToInt(Tail(s), radix, acc * radix + DigitValue(s[1]))

\* parseInt(s, radix): leading whitespace, an optional sign, then the longest
\* run of digits of the radix.  A number n is <<n>>; NaN is <<>>.
NaN == <<>>
ParseInt(s, radix) ==
  LET t == TrimStart(s)
      neg == Len(t) > 0 /\ t[1] = "-"
      u == IF Len(t) > 0 /\ t[1] \in {"-", "+"} THEN Tail(t) ELSE t
  IN IF Len(u) = 0 \/ DigitValue(u[1]) >= radix THEN NaN
     ELSE IF neg THEN <<0 - DigitsToInt(u, radix, 0)>> ELSE <<DigitsToInt(u, radix, 0)>>

\* parseFloat(s) for strings that hold no "." and no exponent (all the
\* strings of the integer-step presets modelled here): the signed decimal
\* prefix, NaN when there is none.
ParseFloat(s) == ParseInt(s, 10)

\* The longest prefix of s made of decimal digits.
RECURSIVE DigitRun(_)
DigitRun(s) ==
  IF Len(s) = 0 \/ s[1] \notin Digits THEN <<>> ELSE <<s[1]>> \o DigitRun(Tail(s))

\* parseFloat(s) in hundredths, for a string without exponent whose fraction
\* has at most two digits: leading whitespace, an optional sign, digits, and
\* an optional point with digits; NaN when there is no digit at all.
ParseFloat100(s) ==
  LET t == TrimStart(s)
      neg == Len(t) > 0 /\ t[1] = "-"
      u == IF Len(t) > 0 /\ t[1] \in {"-", "+"} THEN Tail(t) ELSE t
      whole == DigitRun(u)
      rest == Slice(u, Len(whole), Len(u))
      frac == IF Len(rest) > 0 /\ rest[1] = "." THEN DigitRun(Tail(rest)) ELSE <<>>
      hundredths == DigitsToInt(whole, 10, 0) * 100
                      + DigitsToInt(Slice(frac \o <<"0", "0">>, 0, 2), 10, 0)
  IN IF whole = <<>> /\ frac = <<>> THEN NaN
     ELSE IF neg THEN <<0 - hundredths>> ELSE <<hundredths>>

\* Number.prototype.toString(radix).toUpperCase() for an integer n.
RECURSIVE NatToString(_, _)
NatToString(n, radix) ==
  IF n < radix THEN <<DigitChars[n + 1]>>
  ELSE NatToString(n \div radix, radix) \o <<DigitChars[(n % radix) + 1]>>

IntToString(n, radix) ==
  IF n < 0 THEN <<"-">> \o NatToString(0 - n, radix) ELSE NatToString(n, radix)

\* ------------------------------------------------------------------------
\* getSegmentRanges (exported function)
\* ------------------------------------------------------------------------
\* Mutant: the fallback branch advances the search cursor past the missing value.
RECURSIVE scanRanges_fallbackAdvances(_, _, _, _)
scanRanges_fallbackAdvances(segmentValues, formatted, i, searchFrom) ==
  IF i > Len(segmentValues) THEN <<>>
  ELSE LET segVal == segmentValues[i]
           start == IndexOf(formatted, segVal, searchFrom)
       IN IF start = -1
          THEN <<[start |-> searchFrom, end |-> searchFrom, value |-> segVal]>>
               \o scanRanges_fallbackAdvances(segmentValues, formatted, i + 1,
                                              searchFrom + Len(segVal))
          ELSE <<[start |-> start, end |-> start + Len(segVal), value |-> segVal]>>
               \o scanRanges_fallbackAdvances(segmentValues, formatted, i + 1,
                                              start + Len(segVal))

\* Mutant: the search cursor is not advanced after a match.
RECURSIVE scanRanges_noAdvance(_, _, _, _)
scanRanges_noAdvance(segmentValues, formatted, i, searchFrom) ==
  IF i > Len(segmentValues) THEN <<>>
  ELSE LET segVal == segmentValues[i]
           start == IndexOf(formatted, segVal, searchFrom)
       IN IF start = -1
          THEN <<[start |-> searchFrom, end |-> searchFrom, value |-> segVal]>>
               \o scanRanges_noAdvance(segmentValues, formatted, i + 1, searchFrom)
          ELSE <<[start |-> start, end |-> start + Len(segVal), value |-> segVal]>>
               \o scanRanges_noAdvance(segmentValues, formatted, i + 1, searchFrom)

RECURSIVE scanRanges(_, _, _, _)
scanRanges(segmentValues, formatted, i, searchFrom) ==
  IF i > Len(segmentValues) THEN <<>>
  ELSE LET segVal == segmentValues[i]
           start == IndexOf(formatted, segVal, searchFrom)
       IN IF start = -1
          THEN <<[start |-> searchFrom, end |-> searchFrom, value |-> segVal]>>
               \o scanRanges(segmentValues, formatted, i + 1, searchFrom)
          ELSE <<[start |-> start, end |-> start + Len(segVal), value |-> segVal]>>
               \o scanRanges(segmentValues, formatted, i + 1, start + Len(segVal))

\* Mutant: every value is searched from the start of the string.
getSegmentRanges_fromStart(segmentValues, formatted) ==
  scanRanges_noAdvance(segmentValues, formatted, 1, 0)

\* The caller supplies segmentValues = parse(value) and formatted =
\* format(segmentValues), the two calls the function makes on entry.
getSegmentRanges(segmentValues, formatted) ==
  scanRanges(segmentValues, formatted, 1, 0)

\* ------------------------------------------------------------------------
\* getCursorSegment (exported function); indices are 0-based as in the source
\* ------------------------------------------------------------------------
\* Mutant: an offset after the last range maps to n instead of n - 1.
getCursorSegment_pastLast(cursorPos, segmentRanges) ==
  LET n == Len(segmentRanges)
      hit == {i \in 1..n : cursorPos >= segmentRanges[i].start
                           /\ cursorPos <= segmentRanges[i].end}
      gap == {i \in 1..(n - 1) : cursorPos > segmentRanges[i].end
                                 /\ cursorPos < segmentRanges[i + 1].start}
  IN IF n = 0 THEN 0
     ELSE IF hit # {} THEN Min(hit) - 1
     ELSE IF cursorPos < segmentRanges[1].start THEN 0
     ELSE IF cursorPos > segmentRanges[n].end THEN n
     ELSE IF gap # {}
          THEN LET i == Min(gap)
                   distLeft == cursorPos - segmentRanges[i].end
                   distRight == segmentRanges[i + 1].start - cursorPos
               IN IF distLeft <= distRight THEN i - 1 ELSE i
     ELSE 0

\* Mutant: an exact tie between two neighbours resolves to the right one.
getCursorSegment_tieRight(cursorPos, segmentRanges) ==
  LET n == Len(segmentRanges)
      hit == {i \in 1..n : cursorPos >= segmentRanges[i].start
                           /\ cursorPos <= segmentRanges[i].end}
      gap == {i \in 1..(n - 1) : cursorPos > segmentRanges[i].end
                                 /\ cursorPos < segmentRanges[i + 1].start}
  IN IF n = 0 THEN 0
     ELSE IF hit # {} THEN Min(hit) - 1
     ELSE IF cursorPos < segmentRanges[1].start THEN 0
     ELSE IF cursorPos > segmentRanges[n].end THEN n - 1
     ELSE IF gap # {}
          THEN LET i == Min(gap)
                   distLeft == cursorPos - segmentRanges[i].end
                   distRight == segmentRanges[i + 1].start - cursorPos
               IN IF distLeft < distRight THEN i - 1 ELSE i
     ELSE 0

getCursorSegment(cursorPos, segmentRanges) ==
  LET n == Len(segmentRanges)
      hit == {i \in 1..n : cursorPos >= segmentRanges[i].start
                           /\ cursorPos <= segmentRanges[i].end}
      gap == {i \in 1..(n - 1) : cursorPos > segmentRanges[i].end
                                 /\ cursorPos < segmentRanges[i + 1].start}
  IN IF n = 0 THEN 0
     ELSE IF hit # {} THEN Min(hit) - 1
     ELSE IF cursorPos < segmentRanges[1].start THEN 0
     ELSE IF cursorPos > segmentRanges[n].end THEN n - 1
     ELSE IF gap # {}
          THEN LET i == Min(gap)
                   distLeft == cursorPos - segmentRanges[i].end
                   distRight == segmentRanges[i + 1].start - cursorPos
               IN IF distLeft <= distRight THEN i - 1 ELSE i
     ELSE 0

\* ------------------------------------------------------------------------
\* Built-in presets (segment descriptors, format, parse)
\* An absent descriptor field is <<>>; a present one is <<v>>.
\* ------------------------------------------------------------------------
ZWS == "ZWS"            \* U+200B
HI == "HI"              \* U+D83D, first unit of the calendar emoji
LO == "LO"              \* U+DCC5, second unit of the calendar emoji
ICON == <<HI, LO>>

CurrentYear == 2024     \* new Date().getFullYear()

Descriptor ==
  [value |-> <<>>, placeholder |-> <<>>, min |-> <<>>, max |-> <<>>,
   step |-> <<>>, decimals |-> 0, radix |-> <<>>, pattern |-> "none", maxLength |-> <<>>,
   options |-> <<>>, type |-> "", onClick |-> FALSE, selectable |-> FALSE]

ipv4Segments ==
  LET octet == [Descriptor EXCEPT !.value = <<<<"0">>>>, !.placeholder = <<<<"-", "-">>>>,
                                  !.min = <<0>>, !.max = <<255>>, !.step = <<1>>,
                                  !.pattern = "digit"]
  IN <<octet, octet, octet, octet>>

ipv4Format(values) == Join(values, ".")

ipv4Parse(str) == Fill(Split(str, "."), 4, <<"0">>)

durationSegments ==
  <<[Descriptor EXCEPT !.value = <<<<"0", "0">>>>, !.placeholder = <<<<"h", "h">>>>,
                       !.min = <<0>>, !.step = <<1>>, !.maxLength = <<3>>,
                       !.pattern = "digit"],
    [Descriptor EXCEPT !.value = <<<<"0", "0">>>>, !.placeholder = <<<<"m", "m">>>>,
                       !.min = <<0>>, !.max = <<59>>, !.step = <<1>>,
                       !.pattern = "digit"],
    [Descriptor EXCEPT !.value = <<<<"0", "0">>>>, !.placeholder = <<<<"s", "s">>>>,
                       !.min = <<0>>, !.max = <<59>>, !.step = <<1>>,
                       !.pattern = "digit"]>>

durationFormat(values) ==
  Join([i \in 1..Len(values) |-> PadStart(values[i], 2, "0")], ":")

durationParse(str) ==
  [i \in 1..3 |-> PadStart(Fill(Split(str, ":"), 3, <<"0", "0">>)[i], 2, "0")]

\* dateWithPicker with an onClick handler supplied for segment 3, as the
\* preset's documentation instructs.
dateWithPickerSegments ==
  <<[Descriptor EXCEPT !.value = <<IntToString(CurrentYear, 10)>>,
                       !.placeholder = <<<<"y", "y", "y", "y">>>>,
                       !.min = <<1>>, !.max = <<9999>>, !.step = <<1>>,
                       !.maxLength = <<4>>, !.pattern = "digit"],
    [Descriptor EXCEPT !.value = <<<<"0", "1">>>>, !.placeholder = <<<<"m", "m">>>>,
                       !.min = <<1>>, !.max = <<12>>, !.step = <<1>>,
                       !.pattern = "digit"],
    [Descriptor EXCEPT !.value = <<<<"0", "1">>>>, !.placeholder = <<<<"d", "d">>>>,
                       !.min = <<1>>, !.max = <<31>>, !.step = <<1>>,
                       !.pattern = "digit"],
    [Descriptor EXCEPT !.value = <<ICON>>, !.placeholder = <<ICON>>,
                       !.type = "action", !.onClick = TRUE]>>

dateWithPickerFormat(values) ==
  PadStart(values[1], 4, "0") \o <<"-">> \o PadStart(values[2], 2, "0") \o <<"-">>
    \o PadStart(values[3], 2, "0") \o <<" ">> \o values[4]

\* str.replace(/\s*ICON\s*$/, ''): the icon followed only by whitespace up
\* to the end is removed together with the whitespace run before it.
StripIconSuffix(str) ==
  LET n == Len(str)
      at == {k \in 0..(n - 2) : /\ str[k + 1] = HI /\ str[k + 2] = LO
                                /\ \A j \in (k + 3)..n : str[j] \in Whitespace}
  IN IF at = {} THEN str
     ELSE LET k == Min(at)
              from == Min({f \in 0..k : \A j \in (f + 1)..k : str[j] \in Whitespace})
          IN Slice(str, 0, from)

padIfNum(v, len) == IF AllDigits(v) THEN PadStart(v, len, "0") ELSE v

\* [y, m, d] with the numeric parts padded to 4, 2 and 2 digits
padDate(parts) == [i \in 1..3 |-> padIfNum(parts[i], <<4, 2, 2>>[i])]

dateWithPickerParse(str) ==
  Append(padDate(Fill(Split(Trim(StripIconSuffix(str)), "-"), 3, <<"0", "1">>)), ICON)

\* dateWithPicker with selectable: true added to the action segment, which
\* makes it reachable with Tab and the arrow keys (constructor options).
selectablePickerSegments ==
  [dateWithPickerSegments EXCEPT ![4].selectable = TRUE]

macSegments ==
  LET octet == [Descriptor EXCEPT !.value = <<<<"0", "0">>>>, !.placeholder = <<<<"-", "-">>>>,
                                  !.min = <<0>>, !.max = <<255>>, !.step = <<1>>,
                                  !.radix = <<16>>, !.pattern = "hex"]
  IN <<octet, octet, octet, octet, octet, octet>>

calcSegments ==
  LET operand == [Descriptor EXCEPT !.value = <<<<"1">>>>, !.placeholder = <<<<"-", "-">>>>,
                                    !.min = <<0>>, !.max = <<999>>, !.step = <<1>>,
                                    !.pattern = "digit"]
  IN <<operand,
       [Descriptor EXCEPT !.value = <<<<"+">>>>, !.placeholder = <<<<"?">>>>,
                          !.options = << <<"+">>, <<"-">>, <<"*">>, <<"/">> >>],
       operand>>

calcFormat(values) == values[1] \o <<" ">> \o values[2] \o <<" ">> \o values[3]

\* str.match(/^(--|[\d]+)\s+([^\s]+)\s+(--|[\d]+)$/): three runs of
\* non-whitespace separated by whitespace, the outer two "--" or digits.
\* "--" or a run of digits: the operand alternatives (--|\d+)
Amount(t) == t = <<"-", "-">> \/ AllDigits(t)

calcTokens(str, tokens) ==
  IF /\ Len(str) > 0 /\ str[1] \notin Whitespace /\ str[Len(str)] \notin Whitespace
     /\ Len(tokens) = 3 /\ Amount(tokens[1]) /\ Amount(tokens[3])
  THEN tokens
  ELSE << <<"-", "-">>, <<"+">>, <<"-", "-">> >>

calcParse(str) == calcTokens(str, SelectSeq(Split(str, " "), LAMBDA t : t # <<>>))

ARROW == "ARROW"        \* U+2192

\* String.prototype.split(sep) for a separator of several code units.
RECURSIVE SplitOn(_, _)
SplitOnAt(str, sep, k) ==
  IF k = -1 THEN <<str>>
  ELSE <<Slice(str, 0, k)>> \o SplitOn(Slice(str, k + Len(sep), Len(str)), sep)

SplitOn(str, sep) == SplitOnAt(str, sep, IndexOf(str, sep, 0))

dateRangeFormat(values) ==
  PadStart(values[1], 4, "0") \o <<"-">> \o PadStart(values[2], 2, "0") \o <<"-">>
    \o PadStart(values[3], 2, "0") \o <<" ", ARROW, " ">>
    \o PadStart(values[4], 4, "0") \o <<"-">> \o PadStart(values[5], 2, "0") \o <<"-">>
    \o PadStart(values[6], 2, "0")

\* parseDate of dateRange.parse
\* parts[i] || d for the three parts of a date
dateParts(parts) ==
  [i \in 1..3 |-> IF Len(parts) >= i /\ parts[i] # <<>> THEN parts[i]
                  ELSE <<<<"y", "y", "y", "y">>, <<"m", "m">>, <<"d", "d">>>>[i]]

parseDate(s) == padDate(dateParts(Split(s, "-")))

bothDates(halves) ==
  parseDate(halves[1]) \o parseDate(IF Len(halves) >= 2 THEN halves[2] ELSE <<>>)

dateRangeParse(str) == bothDates(SplitOn(str, <<" ", ARROW, " ">>))

\* ------------------------------------------------------------------------
\* The remaining built-in presets.  The currency symbols U+20AC, U+00A3 and
\* U+00A5 are the units "E", "L" and "Y"; a segment whose step is 0.1 has
\* decimals 1 and step 1, counted in tenths.
\* ------------------------------------------------------------------------
Rep(c, n) == [i \in 1..n |-> c]

\* A descriptor with value, placeholder and pattern.
Field(value, placeholder, pattern) ==
  [Descriptor EXCEPT !.value = <<value>>, !.placeholder = <<placeholder>>,
                     !.pattern = pattern]

\* A descriptor with min, max and step 1 besides.
Bounded(value, placeholder, min, max) ==
  [Field(value, placeholder, "digit") EXCEPT !.min = <<min>>, !.max = <<max>>,
                                             !.step = <<1>>]

\* A descriptor with min, step 1 and maxLength but no max.
Capped(value, placeholder, maxLength) ==
  [Field(value, placeholder, "digit") EXCEPT !.min = <<0>>, !.step = <<1>>,
                                             !.maxLength = <<maxLength>>]

presetSegments(c) ==
  CASE c = "ipv6" ->
         [i \in 1..8 |-> [Bounded(Rep("0", 4), Rep("-", 4), 0, 65535)
                            EXCEPT !.radix = <<16>>, !.pattern = "hex"]]
    [] c = "rgba" ->
         <<Bounded(<<"0">>, <<"-", "-">>, 0, 255), Bounded(<<"0">>, <<"-", "-">>, 0, 255),
           Bounded(<<"0">>, <<"-", "-">>, 0, 255),
           [Bounded(<<"1">>, <<"-", "-">>, 0, 1) EXCEPT !.decimals = 1, !.pattern = "digitdot"]>>
    [] c = "uuid" ->
         <<[Field(Rep("0", 8), Rep("x", 8), "hex") EXCEPT !.maxLength = <<8>>],
           [Field(Rep("0", 4), Rep("x", 4), "hex") EXCEPT !.maxLength = <<4>>],
           [Field(Rep("0", 4), Rep("x", 4), "hex") EXCEPT !.maxLength = <<4>>],
           [Field(Rep("0", 4), Rep("x", 4), "hex") EXCEPT !.maxLength = <<4>>],
           [Field(Rep("0", 12), Rep("x", 12), "hex") EXCEPT !.maxLength = <<12>>]>>
    [] c = "mac" -> macSegments
    [] c = "time" ->
         <<Bounded(<<"0", "0">>, <<"h", "h">>, 0, 23), Bounded(<<"0", "0">>, <<"m", "m">>, 0, 59),
           Bounded(<<"0", "0">>, <<"s", "s">>, 0, 59)>>
    [] c = "date" -> [i \in 1..3 |-> dateWithPickerSegments[i]]
    [] c = "creditCard" ->
         [i \in 1..4 |-> [Bounded(Rep("0", 4), Rep("n", 4), 0, 9999)
                            EXCEPT !.maxLength = <<4>>]]
    [] c = "semver" ->
         <<Capped(<<"1">>, <<"n">>, 3), Capped(<<"0">>, <<"n">>, 3), Capped(<<"0">>, <<"n">>, 3)>>
    [] c = "expiryDate" ->
         <<Bounded(<<"0", "1">>, <<"m", "m">>, 1, 12), Bounded(<<"2", "5">>, <<"y", "y">>, 0, 99)>>
    [] c = "phone" ->
         <<[Bounded(<<"5", "5", "5">>, <<"n", "n", "n">>, 0, 999) EXCEPT !.maxLength = <<3>>],
           [Bounded(<<"5", "5", "5">>, <<"n", "n", "n">>, 0, 999) EXCEPT !.maxLength = <<3>>],
           [Bounded(<<"5", "5", "5", "5">>, <<"x", "x", "x", "x">>, 0, 9999) EXCEPT !.maxLength = <<4>>]>>
    [] c = "hsla" ->
         <<Bounded(<<"0">>, <<"-", "-">>, 0, 360), Bounded(<<"0">>, <<"-", "-">>, 0, 100),
           Bounded(<<"0">>, <<"-", "-">>, 0, 100),
           [Bounded(<<"1">>, <<"-", "-">>, 0, 1) EXCEPT !.decimals = 1, !.pattern = "digitdot"]>>
    [] c = "price" -> <<Capped(<<"0">>, <<"-", "-">>, 5), Bounded(<<"0", "0">>, <<"-", "-">>, 0, 99)>>
    [] c = "mathExpr" ->
         <<Bounded(<<"0">>, <<"-", "-">>, 0, 999), Bounded(<<"0">>, <<"-", "-">>, 0, 999),
           Bounded(<<"1">>, <<"-", "-">>, 0, 999)>>
    [] c = "fullName" ->
         [i \in 1..2 |-> [Field(<<>>, Rep("-", 10), "letter")
                            EXCEPT !.type = "text", !.maxLength = <<20>>]]
    [] c = "currency" ->
         <<[Field(<<"$">>, <<"?">>, "none")
              EXCEPT !.options = <<<<"$">>, <<"E">>, <<"L">>, <<"Y">>>>],
           Capped(<<"0">>, <<"-", "-">>, 5), Bounded(<<"0", "0">>, <<"-", "-">>, 0, 99)>>
    [] c = "dateRange" -> [i \in 1..6 |-> dateWithPickerSegments[((i - 1) % 3) + 1]]

\* values.map(v => String(v).padStart(n, '0'))
PadAll(values, n) == [i \in 1..Len(values) |-> PadStart(values[i], n, "0")]

\* String.prototype.toUpperCase on the letters the presets use.
ToUpperChar(c) ==
  IF \E d \in 1..6 : LowerHex[d] = c
  THEN DigitChars[(CHOOSE d \in 1..6 : LowerHex[d] = c) + 10]
  ELSE c

ToUpper(str) == [j \in 1..Len(str) |-> ToUpperChar(str[j])]

presetFormat(c, values) ==
  CASE c = "ipv6" -> Join(PadAll(values, 4), ":")
    [] c = "rgba" ->
         <<"r", "g", "b", "a", "(">> \o values[1] \o <<",", " ">> \o values[2] \o <<",", " ">> \o values[3]
           \o <<",", " ">> \o values[4] \o <<")">>
    [] c = "uuid" -> Join(values, "-")
    [] c = "mac" -> Join([i \in 1..Len(values) |-> ToUpper(PadStart(values[i], 2, "0"))], ":")
    [] c = "time" -> Join(PadAll(values, 2), ":")
    [] c = "date" ->
         PadStart(values[1], 4, "0") \o <<"-">> \o PadStart(values[2], 2, "0") \o <<"-">>
           \o PadStart(values[3], 2, "0")
    [] c = "creditCard" -> Join(PadAll(values, 4), " ")
    [] c = "semver" -> Join(values, ".")
    [] c = "expiryDate" -> PadStart(values[1], 2, "0") \o <<"/">> \o PadStart(values[2], 2, "0")
    [] c = "phone" -> <<"(">> \o values[1] \o <<")", " ">> \o values[2] \o <<"-">> \o values[3]
    [] c = "hsla" ->
         <<"h", "s", "l", "a", "(">> \o values[1] \o <<",", " ">> \o values[2] \o <<"%", ",", " ">> \o values[3]
           \o <<"%", ",", " ">> \o values[4] \o <<")">>
    [] c = "price" -> <<"$">> \o values[1] \o <<".">> \o PadStart(values[2], 2, "0")
    [] c = "mathExpr" ->
         <<"(">> \o values[1] \o <<" ", "+", " ">> \o values[2] \o <<")", " ", "/", " ">> \o values[3]
    [] c = "fullName" -> values[1] \o <<" ">> \o values[2]
    [] c = "currency" -> values[1] \o values[2] \o <<".">> \o PadStart(values[3], 2, "0")

\* const parts = str.split(sep); while (parts.length < n) parts.push(fill);
\* parts.slice(0, n)
SplitFill(str, sep, n, fill) == Fill(Split(str, sep), n, fill)

\* The offsets at which one of two literal prefixes occurs in str.
PrefixStarts(str, long, short) ==
  {k \in 0..Len(str) : Slice(str, k, k + Len(long)) = long
                       \/ Slice(str, k, k + Len(short)) = short}

AfterPrefixAt(str, k, long, short) ==
  IF Slice(str, k, k + Len(long)) = long THEN k + Len(long) ELSE k + Len(short)

\* What \s*(X+?)\s* captures from a non-empty run: the run trimmed, or its
\* last unit when the run is all whitespace.
LazyOf(run, trimmed) ==
  IF trimmed = <<>> THEN Slice(run, Len(run) - 1, Len(run)) ELSE trimmed

Lazy(run) == LazyOf(run, Trim(run))

\* The text of str from offset from up to the ")" at offset close.
UpTo(str, from, close) == IF close = 0 - 1 THEN <<>> ELSE Slice(str, from, close)

\* The captures of rgba.parse from the runs that "," separates before the
\* first ")": three non-empty runs and, after a third ",", a non-empty rest.
rgbaRest(parts, rest) ==
  IF rest = <<>> THEN <<>>
  ELSE <<Lazy(parts[1]), Lazy(parts[2]), Lazy(parts[3]), Lazy(rest)>>

rgbaCaptures(parts) ==
  IF Len(parts) < 3 \/ parts[1] = <<>> \/ parts[2] = <<>> \/ parts[3] = <<>> THEN <<>>
  ELSE IF Len(parts) = 3 THEN rgbaRest(parts, <<"1">>)
  ELSE rgbaRest(parts, Join(SubSeq(parts, 4, Len(parts)), ","))

rgbaFrom(str, from) == rgbaCaptures(Split(UpTo(str, from, IndexOf(str, <<")">>, from)), ","))

\* rgba.parse, the expression
\*   /rgba?\(\s*([^,)]+?)\s*,\s*([^,)]+?)\s*,\s*([^,)]+?)(?:\s*,\s*([^)]+?))?\s*\)/
\* tried at offset k: the text up to the first ")" holds three non-empty runs
\* separated by "," and, after a third ",", a fourth non-empty run.
rgbaAt(str, k) ==
  rgbaFrom(str, AfterPrefixAt(str, k, <<"r", "g", "b", "a", "(">>, <<"r", "g", "b", "(">>))

\* String.prototype.match with an unanchored expression: the captures at the
\* lowest offset among those where the expression succeeds; <<>> is a
\* failed match.
rgbaFirst(str, hits) == IF hits = {} THEN <<>> ELSE rgbaAt(str, Min(hits))

rgbaMatch(str) ==
  rgbaFirst(str, {k \in PrefixStarts(str, <<"r", "g", "b", "a", "(">>, <<"r", "g", "b", "(">>) :
                    rgbaAt(str, k) # <<>>})

\* phone.parse: /\(([^)]*)\)\s*([^-]*)-(.*)/ captures what lies between the
\* first "(" and the next ")", what follows up to the next "-", and the rest;
\* a match that fails at the first "(" fails at every later one.
phoneAt(str, p) ==
  IF p[3] # 0 - 1
  THEN <<Trim(Slice(str, p[1] + 1, p[2])), Trim(Slice(str, p[2] + 1, p[3])),
         Trim(Slice(str, p[3] + 1, Len(str)))>>
  ELSE <<>>

phoneMatch(str) == phoneAt(str, Stops(str, 0, <<"(", ")", "-">>))

\* The end of hsla's match after the second "%": ")" at once, or a "," and
\* a non-empty run up to ")".
hslaTail(head, rest, close) ==
  IF close = 0 - 1 THEN <<>>
  ELSE IF close = 0 THEN Append(head, <<"1">>)
  ELSE IF rest[1] = "," /\ close > 1 THEN Append(head, Trim(Slice(rest, 1, close)))
  ELSE <<>>

hslaRest(head, rest) == hslaTail(head, rest, IndexOf(rest, <<")">>, 0))

hslaStops(str, from, p) ==
  IF /\ p[1] > from /\ p[2] > p[1] + 1 /\ p[3] # 0 - 1
     /\ Trim(Slice(str, p[2] + 1, p[3])) = <<>> /\ p[4] > p[3] + 1
  THEN hslaRest(<<Trim(Slice(str, from, p[1])), Trim(Slice(str, p[1] + 1, p[2])),
                  Trim(Slice(str, p[3] + 1, p[4]))>>,
                TrimStart(Slice(str, p[4] + 1, Len(str))))
  ELSE <<>>

hslaFrom(str, from) == hslaStops(str, from, Stops(str, from, <<",", "%", ",", "%">>))

\* hsla.parse, the expression
\*   /hsla?\(\s*([^,]+),\s*([^%]+)%\s*,\s*([^%]+)%\s*(?:,\s*([^)]+))?\)/
\* tried at offset k: a non-empty run up to the first ",", one up to the next
\* "%", a "," and a run up to the next "%", then ")" or a "," and a run up
\* to ")"; the captures are trimmed by parse.
hslaAt(str, k) ==
  hslaFrom(str, AfterPrefixAt(str, k, <<"h", "s", "l", "a", "(">>, <<"h", "s", "l", "(">>))

hslaFirst(str, hits) == IF hits = {} THEN <<>> ELSE hslaAt(str, Min(hits))

hslaMatch(str) ==
  hslaFirst(str, {k \in PrefixStarts(str, <<"h", "s", "l", "a", "(">>, <<"h", "s", "l", "(">>) :
                    hslaAt(str, k) # <<>>})

mathExprTail(str, k, p, rest) ==
  IF /\ p[1] > k + 1 /\ p[2] > p[1] + 1
     /\ IndexOf(Slice(str, k + 1, p[1]), <<")">>, 0) = 0 - 1
     /\ Len(rest) >= 2 /\ rest[1] = "/"
  THEN <<Trim(Slice(str, k + 1, p[1])), Trim(Slice(str, p[1] + 1, p[2])), Trim(Tail(rest))>>
  ELSE <<>>

mathExprStops(str, k, p) ==
  mathExprTail(str, k, p, TrimStart(Slice(str, p[2] + 1, Len(str))))

\* mathExpr.parse, the expression
\*   /\(\s*([^+)]+?)\s*\+\s*([^)]+?)\s*\)\s*\/\s*(.+)/
\* tried at the "(" at offset k: a non-empty run without ")" up to the next
\* "+", one up to the next ")", then "/" and a non-empty rest; the captures
\* are trimmed by parse.
mathExprAt(str, k) == mathExprStops(str, k, Stops(str, k + 1, <<"+", ")">>))

mathExprFirst(str, hits) == IF hits = {} THEN <<>> ELSE mathExprAt(str, Min(hits))

mathExprMatch(str) ==
  mathExprFirst(str, {k \in 0..(Len(str) - 1) :
                        str[k + 1] = "(" /\ mathExprAt(str, k) # <<>>})

\* The end of the amount that starts at offset lead: "--", or a run of digits.
amountEnd(str, lead) ==
  IF Slice(str, lead, lead + 2) = <<"-", "-">> THEN lead + 2
  ELSE Min({k \in lead..Len(str) : k = Len(str) \/ str[k + 1] \notin Digits})

currencyAt(str, lead, dot) ==
  IF /\ lead >= 1 /\ Amount(Slice(str, lead, dot))
     /\ dot < Len(str) /\ str[dot + 1] = "."
     /\ Amount(Slice(str, dot + 1, Len(str)))
  THEN <<Slice(str, 0, lead), Slice(str, lead, dot), Slice(str, dot + 1, Len(str))>>
  ELSE <<>>

currencyFrom(str, lead) == currencyAt(str, lead, amountEnd(str, lead))

\* currency.parse: /^([^\d\-]+)(--|\d+)\.(--|\d+)$/ captures the leading run
\* of units that are neither digits nor "-", then an amount, ".", an amount.
currencyMatch(str) ==
  currencyFrom(str, Min({k \in 0..Len(str) :
                           k = Len(str) \/ str[k + 1] \in Digits \cup {"-"}}))

OrDefault(v, d) == IF v # <<>> THEN v ELSE d

\* m ? [...] : the default values
matched(m, default) == IF m = <<>> THEN default ELSE m

rgbaValues(m) ==
  IF m = <<>> THEN <<<<"0">>, <<"0">>, <<"0">>, <<"1">>>>
  ELSE IF Len(m) = 3 THEN Append(m, <<"1">>)
  ELSE m

uuidGroups(parts) ==
  [i \in 1..5 |-> OrDefault(IF i <= Len(parts) THEN parts[i] ELSE <<>>,
                            Rep("0", <<8, 4, 4, 4, 12>>[i]))]

padWidths(parts, widths) ==
  [i \in 1..Len(widths) |-> PadStart(parts[i], widths[i], "0")]

pricePair(without, dot) ==
  IF dot = 0 - 1 THEN <<OrDefault(without, <<"-", "-">>), <<"-", "-">>>>
  ELSE <<OrDefault(Slice(without, 0, dot), <<"-", "-">>),
         PadStart(Slice(without, dot + 1, Len(without)), 2, "0")>>

priceOf(without) == pricePair(without, IndexOf(without, <<".">>, 0))

nameAt(str, space) ==
  IF space = 0 - 1 THEN <<str, Rep("-", 10)>>
  ELSE <<Slice(str, 0, space), Slice(str, space + 1, Len(str))>>

currencyValues(m) ==
  IF m = <<>> THEN <<<<"?">>, <<"-", "-">>, <<"-", "-">>>>
  ELSE <<m[1], m[2], PadStart(m[3], 2, "0")>>

presetParse(c, str) ==
  CASE c = "ipv6" -> PadAll(SplitFill(str, ":", 8, Rep("0", 4)), 4)
    [] c = "rgba" -> rgbaValues(rgbaMatch(str))
    [] c = "uuid" -> uuidGroups(Split(str, "-"))
    [] c = "mac" ->
         [i \in 1..6 |-> ToUpper(PadStart(SplitFill(str, ":", 6, <<"0", "0">>)[i], 2, "0"))]
    [] c = "time" -> PadAll(SplitFill(str, ":", 3, <<"0", "0">>), 2)
    [] c = "date" -> padWidths(SplitFill(str, "-", 3, <<"0", "1">>), <<4, 2, 2>>)
    [] c = "creditCard" -> PadAll(SplitFill(str, " ", 4, Rep("0", 4)), 4)
    [] c = "semver" -> SplitFill(str, ".", 3, <<"0">>)
    [] c = "expiryDate" -> PadAll(SplitFill(str, "/", 2, <<"0", "0">>), 2)
    [] c = "phone" ->
         matched(phoneMatch(str), <<<<"n", "n", "n">>, <<"n", "n", "n">>, <<"x", "x", "x", "x">>>>)
    [] c = "hsla" -> matched(hslaMatch(str), <<<<"0">>, <<"0">>, <<"0">>, <<"1">>>>)
    [] c = "price" -> priceOf(IF Len(str) > 0 /\ str[1] = "$" THEN Tail(str) ELSE str)
    [] c = "mathExpr" ->
         matched(mathExprMatch(str), <<<<"-", "-">>, <<"-", "-">>, <<"-", "-">>>>)
    [] c = "fullName" -> nameAt(str, IndexOf(str, <<" ">>, 0))
    [] c = "currency" -> currencyValues(currencyMatch(str))

\* The rgba preset of src/presets.js, the module that index.js re-exports:
\* its placeholders are the letters r, g, b and a; its format and parse are
\* those of the rgba preset above.
rgbaLetterSegments ==
  [i \in 1..4 |->
     [presetSegments("rgba")[i] EXCEPT !.placeholder = <<<<<<"r">>, <<"g">>, <<"b">>, <<"a">>>>[i]>>]]

\* Options a page can pass to the constructor: a month, a button that is
\* not selectable, a day and a selectable button, with
\* format = values => values.join(' ') and parse = str => str.split(' ')
\* filled up to four parts.
toolbarSegments ==
  <<dateWithPickerSegments[2], dateWithPickerSegments[4],
    dateWithPickerSegments[3], selectablePickerSegments[4]>>

toolbarFormat(values) == Join(values, " ")

toolbarParse(str) == SplitFill(str, " ", 4, <<"0", "1">>)

\* Options of a page whose first segment is a button that cannot be
\* selected, followed by a month and a day.
leadingActionSegments ==
  <<dateWithPickerSegments[4], dateWithPickerSegments[2], dateWithPickerSegments[3]>>

leadingActionFormat(values) == Join(values, " ")

leadingActionParse(str) == SplitFill(str, " ", 3, <<"0", "1">>)

\* Options a page can pass: an enum segment whose options differ in case
\* and share first letters, then a digit, "choice digit".
choiceSegments ==
  <<[Descriptor EXCEPT !.value = <<<<"a">>>>, !.placeholder = <<<<"?">>>>,
                       !.options = <<<<"A", "B">>, <<"a">>, <<"B", "c">>, <<"b", "d">>>>],
    [Descriptor EXCEPT !.value = <<<<"0">>>>, !.placeholder = <<<<"-", "-">>>>,
                       !.min = <<0>>, !.max = <<9>>, !.step = <<1>>,
                       !.pattern = "digit"]>>

choiceFormat(values) == Join(values, " ")

choiceParse(str) == SplitFill(str, " ", 2, <<"0">>)

ConfigNames == {"ipv4", "duration", "dateWithPicker", "calc"}

\* The names of the export `presets`.
AllPresets ==
  {"ipv4", "ipv6", "duration", "rgba", "uuid", "mac", "time", "date", "dateRange",
   "dateWithPicker", "creditCard", "semver", "expiryDate", "phone", "hsla", "price",
   "mathExpr", "fullName", "calc", "currency"}

Segments(c) ==
  CASE c = "ipv4" -> ipv4Segments
    [] c = "duration" -> durationSegments
    [] c = "dateWithPicker" -> dateWithPickerSegments
    [] c = "calc" -> calcSegments
    [] c = "selectablePicker" -> selectablePickerSegments
    [] c = "rgbaLetters" -> rgbaLetterSegments
    [] c = "toolbar" -> toolbarSegments
    [] c = "choice" -> choiceSegments
    [] c = "leadingAction" -> leadingActionSegments
    [] OTHER -> presetSegments(c)

Format(c, values) ==
  CASE c = "ipv4" -> ipv4Format(values)
    [] c = "duration" -> durationFormat(values)
    [] c = "dateWithPicker" -> dateWithPickerFormat(values)
    [] c = "calc" -> calcFormat(values)
    [] c = "dateRange" -> dateRangeFormat(values)
    [] c = "selectablePicker" -> dateWithPickerFormat(values)
    [] c = "rgbaLetters" -> presetFormat("rgba", values)
    [] c = "toolbar" -> toolbarFormat(values)
    [] c = "choice" -> choiceFormat(values)
    [] c = "leadingAction" -> leadingActionFormat(values)
    [] OTHER -> presetFormat(c, values)

Parse(c, str) ==
  CASE c = "ipv4" -> ipv4Parse(str)
    [] c = "duration" -> durationParse(str)
    [] c \in {"dateWithPicker", "selectablePicker"} -> dateWithPickerParse(str)
    [] c = "calc" -> calcParse(str)
    [] c = "dateRange" -> dateRangeParse(str)
    [] c = "toolbar" -> toolbarParse(str)
    [] c = "choice" -> choiceParse(str)
    [] c = "leadingAction" -> leadingActionParse(str)
    [] OTHER -> presetParse(IF c = "rgbaLetters" THEN "rgba" ELSE c, str)

\* The letters (\p{L}) among the keys and placeholder units of the model.
Letters == {"a", "b", "c", "d", "e", "f", "h", "m", "n", "s", "x", "y",
            "A", "B", "C", "D", "E", "F"}

\* RegExp.prototype.test(key) for the presets' single-character patterns.
PatternTest(pattern, key) ==
  CASE pattern = "digit" -> key \in Digits
    [] pattern = "hex" -> DigitValue(key) < 16
    [] pattern = "digitdot" -> key \in Digits \cup {"."}
    [] pattern = "letter" -> key \in Letters
    [] OTHER -> TRUE

\* ------------------------------------------------------------------------
\* SegmentedInput: helpers.  A handler is a function of the record s of the
\* mutable state (the variables of the same names); segment indices are
\* 0-based, so segment i is Segs[i + 1].
\* ------------------------------------------------------------------------
Segs == segments
NSegs == Len(Segs)
NULL == 0 - 1           \* the null of #findEditable / #findNavigable

InvalidMessage == "Please fill in all fields."

HasSeg(i) == i >= 0 /\ i < NSegs

isActionSegment(i) ==
  HasSeg(i) /\ (Segs[i + 1].type = "action" \/ Segs[i + 1].onClick)

isSelectable(i) == HasSeg(i) /\ Segs[i + 1].selectable

\* String(seg.step ?? 1).includes('.'); decimals is the number of digits
\* String(step) has after its point.
isDecimalSegment(seg) == seg.decimals > 0

\* Mutant: the guards are left in the string handed to parse.
stripZWS_keeps(str) == str

stripZWS(str) == SelectSeq(str, LAMBDA c : c # ZWS)

\* One step of the scan of #formatGuarded, for a value found at start.
RECURSIVE actionRangesFrom(_, _, _, _)
actionRangeAt(values, raw, i, searchFrom, start) ==
  IF start # -1
  THEN (IF isActionSegment(i - 1)
        THEN <<[start |-> start, end |-> start + Len(values[i])]>> ELSE <<>>)
       \o actionRangesFrom(values, raw, i + 1, start + Len(values[i]))
  ELSE actionRangesFrom(values, raw, i + 1, searchFrom)

\* The scan of #formatGuarded: the spans of the action segments' values in
\* the raw format output; a value that is not found is skipped.
actionRangesFrom(values, raw, i, searchFrom) ==
  IF i > Len(values) THEN <<>>
  ELSE actionRangeAt(values, raw, i, searchFrom, IndexOf(raw, values[i], searchFrom))

\* The splice loop of #formatGuarded, from the last action range to the first.
RECURSIVE wrapGuards(_, _, _)
wrapGuards(result, actionRanges, j) ==
  IF j < 1 THEN result
  ELSE wrapGuards(Slice(result, 0, actionRanges[j].start) \o <<ZWS>>
                    \o Slice(result, actionRanges[j].start, actionRanges[j].end)
                    \o <<ZWS>> \o Slice(result, actionRanges[j].end, Len(result)),
                  actionRanges, j - 1)

guardAll(raw, actionRanges) == wrapGuards(raw, actionRanges, Len(actionRanges))

guardRaw(raw, values) ==
  IF \A i \in 0..(NSegs - 1) : ~isActionSegment(i) THEN raw
  ELSE guardAll(raw, actionRangesFrom(values, raw, 1, 0))

\* #formatGuarded
formatGuarded(values) == guardRaw(Format(cfg, values), values)

placeholderValues ==
  [i \in 1..NSegs |->
     IF Segs[i].placeholder # <<>> THEN Segs[i].placeholder[1]
     ELSE IF Segs[i].value # <<>> THEN Segs[i].value[1]
     ELSE IF Segs[i].min # <<>> THEN IntToString(Segs[i].min[1], 10)
     ELSE <<"0">>]

formattedPlaceholder == formatGuarded(placeholderValues)

\* #currentValues
currentValues(s) == Parse(cfg, stripZWS(s.text))

\* getSegmentRanges(value, parse, format) given parse(value)
rangesOf(values) == getSegmentRanges(values, formatGuarded(values))

\* The instance's getSegmentRanges()
instanceRanges(s) == rangesOf(Parse(cfg, stripZWS(s.text)))

\* Records the string that #currentValues / getSegmentRanges() hand to parse.
noteParse(s) == [s EXCEPT !.parsed = @ \cup {stripZWS(s.text)}]

\* Records a value array with an edited slot that is handed to format.
noteFormat(s, values) == [s EXCEPT !.formattedValues = @ \cup {values}]

Ev(type, index, value) == [type |-> type, index |-> index, value |-> value]

emit(s, type, index, value) == [s EXCEPT !.emitted = Append(@, Ev(type, index, value))]

\* Assigning input.value: the host moves the cursor to the end of a value
\* that differs from the old one.
setValue(s, v) ==
  IF v = s.text THEN s
  ELSE [s EXCEPT !.text = v, !.selection = <<Len(v), Len(v)>>]

\* input.setSelectionRange(start, end): the host clamps the span to the text.
setSelectionRange(s, start, end) ==
  [s EXCEPT !.selection = <<Clamp(start, 0, Clamp(end, 0, Len(s.text))),
                            Clamp(end, 0, Len(s.text))>>]

\* highlightSegment(input, segmentIndex, segmentRanges)
highlightSegment(s, segmentIndex, segmentRanges) ==
  IF segmentIndex >= 0 /\ segmentIndex < Len(segmentRanges)
  THEN setSelectionRange(s, segmentRanges[segmentIndex + 1].start,
                         segmentRanges[segmentIndex + 1].end)
  ELSE s

\* highlightSegment(this.input, index, this.getSegmentRanges())
highlightCurrent(s, index) == highlightSegment(noteParse(s), index, instanceRanges(s))

OrElse(a, b) == IF a # NULL THEN a ELSE b

findEditable(fromIndex, direction) ==
  IF fromIndex < 0 \/ fromIndex >= NSegs THEN NULL
  ELSE IF direction > 0
  THEN IF \E i \in fromIndex..(NSegs - 1) : ~isActionSegment(i)
       THEN CHOOSE i \in fromIndex..(NSegs - 1) :
              ~isActionSegment(i) /\ \A j \in fromIndex..(i - 1) : isActionSegment(j)
       ELSE NULL
  ELSE IF \E i \in 0..fromIndex : ~isActionSegment(i)
       THEN CHOOSE i \in 0..fromIndex :
              ~isActionSegment(i) /\ \A j \in (i + 1)..fromIndex : isActionSegment(j)
       ELSE NULL

Navigable(i) == ~isActionSegment(i) \/ isSelectable(i)

\* Mutant: selectable action segments are skipped too.
findNavigable_editableOnly(fromIndex, direction) == findEditable(fromIndex, direction)

findNavigable(fromIndex, direction) ==
  IF fromIndex < 0 \/ fromIndex >= NSegs THEN NULL
  ELSE IF direction > 0
  THEN IF \E i \in fromIndex..(NSegs - 1) : Navigable(i)
       THEN CHOOSE i \in fromIndex..(NSegs - 1) :
              Navigable(i) /\ \A j \in fromIndex..(i - 1) : ~Navigable(j)
       ELSE NULL
  ELSE IF \E i \in 0..fromIndex : Navigable(i)
       THEN CHOOSE i \in 0..fromIndex :
              Navigable(i) /\ \A j \in (i + 1)..fromIndex : ~Navigable(j)
       ELSE NULL

setCustomValidity(s, msg) ==
  emit([s EXCEPT !.customValidity = msg], "setCustomValidity", NULL, <<msg>>)

\* Mutant: only a field with every segment at its placeholder is incomplete.
hasPlaceholder_all(values) ==
  \A i \in 1..NSegs : /\ ~isActionSegment(i - 1)
                      /\ i <= Len(values)
                      /\ values[i] = placeholderValues[i]

hasPlaceholder(values) ==
  \E i \in 1..NSegs : /\ ~isActionSegment(i - 1)
                      /\ i <= Len(values)
                      /\ values[i] = placeholderValues[i]

\* #updateValidity
updateValidity(s) ==
  IF s.text = <<>> THEN setCustomValidity(s, "")
  ELSE setCustomValidity(noteParse(s),
                         IF hasPlaceholder(currentValues(s)) THEN InvalidMessage ELSE "")

\* Mutant: one segment at its placeholder is taken for an untouched field.
allPlaceholders_any(values) ==
  \E i \in 1..NSegs :
    ~isActionSegment(i - 1) /\ i <= Len(values) /\ values[i] = placeholderValues[i]

allPlaceholders(values) ==
  \A i \in 1..NSegs :
    isActionSegment(i - 1) \/ (i <= Len(values) /\ values[i] = placeholderValues[i])

\* #isPlaceholderState
isPlaceholderState(s) ==
  IF s.text = <<>> THEN TRUE ELSE allPlaceholders(currentValues(s))

\* ------------------------------------------------------------------------
\* SegmentedInput: public operations and private handlers
\* ------------------------------------------------------------------------
\* focusSegment, lines 648-655: the segment focused in place of a
\* non-selectable action segment; NULL when there is none.
focusTarget(clamped) ==
  IF isActionSegment(clamped) /\ ~isSelectable(clamped)
  THEN OrElse(findEditable(clamped + 1, 1), findEditable(clamped - 1, 0 - 1))
  ELSE clamped

\* focusSegment, lines 657-661
leaveSegment(s, clamped) ==
  IF clamped # s.activeSegment THEN emit(s, "segmentblur", s.activeSegment, <<>>) ELSE s

\* focusSegment, lines 662-670
enterSegment(s, clamped) ==
  [s EXCEPT !.activeSegment = clamped,
            !.segmentBuffer = <<>>,
            !.actionClass = isActionSegment(clamped) /\ isSelectable(clamped)]

\* focusSegment, lines 656-672
focusResolved(s, clamped) ==
  IF clamped = NULL THEN s
  ELSE emit(highlightCurrent(enterSegment(leaveSegment(s, clamped), clamped), clamped),
            "segmentfocus", clamped, <<>>)

\* Mutant: the index is used as given.
focusSegment_unclamped(s, index) == focusResolved(s, focusTarget(index))

\* focusSegment(index)
focusSegment(s, index) ==
  focusResolved(s, focusTarget(Max({0, Min({index, NSegs - 1})})))

\* Lines 693-698 and 788-793: the write shared by setSegmentValue and
\* #adjustSegment, given the values with the slot already replaced.
writeAndRefocus(s, values, index) ==
  emit(updateValidity(emit(emit(focusSegment(setValue(s, formatGuarded(values)), index),
                                "input", NULL, <<>>),
                           "change", NULL, <<>>)),
       "segmentchange", index, values[index + 1])

\* setSegmentValue(index, newValue)
setSegmentValue(s, index, newValue) ==
  writeAndRefocus(noteParse(s), [currentValues(s) EXCEPT ![index + 1] = newValue], index)

\* if (!this.input.value) this.input.value = this.#formattedPlaceholder
showPlaceholder(s) == IF s.text = <<>> THEN setValue(s, formattedPlaceholder) ELSE s

radixOf(seg) == IF seg.radix # <<>> THEN seg.radix[1] ELSE 10

\* Mutant: the rotation stops at either end of the list.
cycleOption_stops(options, idx, direction) ==
  options[Clamp(idx + direction, 0, Len(options) - 1) + 1]

\* #adjustSegment, lines 746-748
cycleOption(options, idx, direction) ==
  options[((idx + direction + Len(options)) % Len(options)) + 1]

optionIndex(options, v) ==
  IF \E k \in 1..Len(options) : options[k] = v
  THEN (CHOOSE k \in 1..Len(options) :
          options[k] = v /\ \A j \in 1..(k - 1) : options[j] # v) - 1
  ELSE 0

\* #adjustSegment, lines 766-773: parseFloat / parseInt of a string
readNumber(str, radix) == IF radix = 10 THEN ParseFloat(str) ELSE ParseInt(str, radix)

numberOr(read, fallback) == IF read # NaN THEN read[1] ELSE fallback

currentNumber(seg, str) ==
  numberOr(readNumber(str, radixOf(seg)),
           numberOr(readNumber(IF seg.value # <<>> THEN seg.value[1] ELSE <<"0">>,
                               radixOf(seg)), 0))

\* Mutant: the sum is written without clamping.
clampToSegment_none(seg, next) == next

\* #adjustSegment, lines 777-778
clampToSegment(seg, next) ==
  IF seg.min # <<>> /\ (IF seg.max # <<>> /\ next > seg.max[1] THEN seg.max[1] ELSE next)
                         < seg.min[1]
  THEN seg.min[1]
  ELSE IF seg.max # <<>> /\ next > seg.max[1] THEN seg.max[1] ELSE next

\* Number.prototype.toFixed(1) of h hundredths, h >= 0 and not halfway
\* between two tenths.
toFixed1(h) ==
  IntToString(((h + 5) \div 10) \div 10, 10) \o <<".">>
    \o IntToString(((h + 5) \div 10) % 10, 10)

\* #adjustSegment, lines 766-785, for a segment whose step is 0.1: the
\* numbers are counted in hundredths.
adjustedDecimal(seg, str, direction) ==
  LET current == numberOr(ParseFloat100(str),
                          numberOr(ParseFloat100(IF seg.value # <<>> THEN seg.value[1]
                                                 ELSE <<"0">>), 0))
      next == current + direction * 10
      capped == IF seg.max # <<>> /\ next > seg.max[1] * 100 THEN seg.max[1] * 100 ELSE next
  IN toFixed1(IF seg.min # <<>> /\ capped < seg.min[1] * 100 THEN seg.min[1] * 100
              ELSE capped)

\* #adjustSegment, lines 743-786: the new value of the slot.  For an integer
\* step Math.round(next) = next and the toFixed branch is not taken.
adjustedValue(seg, str, direction) ==
  IF seg.options # <<>>
  THEN cycleOption(seg.options, optionIndex(seg.options, str), direction)
  ELSE IF isDecimalSegment(seg) THEN adjustedDecimal(seg, str, direction)
  ELSE IntToString(clampToSegment(seg, currentNumber(seg, str)
                                        + direction * (IF seg.step # <<>> THEN seg.step[1] ELSE 1)),
                   radixOf(seg))

adjustTo(s, values, index) == writeAndRefocus(noteFormat(s, values), values, index)

adjustIn(s, values, index, direction) ==
  adjustTo(noteParse(s),
           [values EXCEPT ![index + 1] =
              adjustedValue(Segs[index + 1], values[index + 1], direction)],
           index)

adjustShown(s, index, direction) == adjustIn(s, currentValues(s), index, direction)

\* #adjustSegment(index, direction)
adjustSegment(s, index, direction) ==
  IF ~HasSeg(index) \/ isActionSegment(index) \/ Segs[index + 1].type = "text" THEN s
  ELSE adjustShown(showPlaceholder(s), index, direction)

\* #advanceSegment, given next
advanceTo(s, next) ==
  IF next # NULL THEN focusSegment(s, next)
  ELSE highlightCurrent([s EXCEPT !.segmentBuffer = <<>>], s.activeSegment)

\* #advanceSegment
advanceSegment(s) == advanceTo(s, findEditable(s.activeSegment + 1, 1))

overMax(val, radix, max) == val # NaN /\ val[1] * radix > max

\* Mutant: only the length of the buffer decides.
shouldAutoAdvance_lengthOnly(seg, buffer, radix) ==
  IF seg.maxLength # <<>> THEN Len(buffer) >= seg.maxLength[1]
  ELSE IF seg.max = <<>> THEN FALSE
  ELSE IF isDecimalSegment(seg)
       THEN Len(buffer) >= Len(IntToString(seg.max[1], 10)) + 1 + seg.decimals
  ELSE Len(buffer) >= Len(IntToString(seg.max[1], radix))

\* #shouldAutoAdvance(seg, buffer, radix)
shouldAutoAdvance(seg, buffer, radix) ==
  IF seg.maxLength # <<>> THEN Len(buffer) >= seg.maxLength[1]
  ELSE IF seg.max = <<>> THEN FALSE
  ELSE IF isDecimalSegment(seg)
       THEN Len(buffer) >= Len(IntToString(seg.max[1], 10)) + 1 + seg.decimals
  ELSE \/ Len(buffer) >= Len(IntToString(seg.max[1], radix))
       \/ overMax(ParseInt(buffer, radix), radix, seg.max[1])

\* String.prototype.toLowerCase on the letters the presets use.
ToLowerChar(c) ==
  IF \E d \in 11..16 : DigitChars[d] = c
  THEN LowerHex[(CHOOSE d \in 11..16 : DigitChars[d] = c) - 10]
  ELSE c

ToLower(str) == [j \in 1..Len(str) |-> ToLowerChar(str[j])]

\* Mutant: the write is not announced.
writeValues_quiet(s, values, index) ==
  highlightCurrent(
    updateValidity(emit(setValue(noteFormat(s, values), formatGuarded(values)),
                        "input", NULL, <<>>)),
    index)

\* Lines 1112-1120 (and 989-995, 1080-1086): write v into the slot, notify,
\* and highlight the slot again.
writeValues(s, values, index) ==
  highlightCurrent(
    emit(updateValidity(emit(setValue(noteFormat(s, values), formatGuarded(values)),
                             "input", NULL, <<>>)),
         "segmentchange", index, values[index + 1]),
    index)

commitWrite(s, index, v) ==
  writeValues(noteParse(s), [currentValues(s) EXCEPT ![index + 1] = v], index)

\* Mutant: the first option that equals the key or starts with it.
optionMatch_firstPrefix(options, key) ==
  IF \E k \in 1..Len(options) :
       Len(options[k]) >= 1 /\ ToLowerChar(options[k][1]) = ToLowerChar(key)
  THEN <<options[CHOOSE k \in 1..Len(options) :
                   /\ Len(options[k]) >= 1 /\ ToLowerChar(options[k][1]) = ToLowerChar(key)
                   /\ \A j \in 1..(k - 1) :
                        ~(Len(options[j]) >= 1
                          /\ ToLowerChar(options[j][1]) = ToLowerChar(key))]>>
  ELSE <<>>

\* #handleSegmentInput, lines 1074-1078: the option matched by key, exact
\* match first, else the first option that starts with it; <<>> when none.
firstWhere(options, key, exactly) ==
  CHOOSE k \in 1..Len(options) :
    /\ IF exactly THEN ToLower(options[k]) = ToLower(<<key>>)
       ELSE Len(options[k]) >= 1 /\ ToLowerChar(options[k][1]) = ToLowerChar(key)
    /\ \A j \in 1..(k - 1) :
         ~(IF exactly THEN ToLower(options[j]) = ToLower(<<key>>)
           ELSE Len(options[j]) >= 1 /\ ToLowerChar(options[j][1]) = ToLowerChar(key))

optionMatch(options, key) ==
  IF \E k \in 1..Len(options) : ToLower(options[k]) = ToLower(<<key>>)
  THEN <<options[firstWhere(options, key, TRUE)]>>
  ELSE IF \E k \in 1..Len(options) :
            Len(options[k]) >= 1 /\ ToLowerChar(options[k][1]) = ToLowerChar(key)
  THEN <<options[firstWhere(options, key, FALSE)]>>
  ELSE <<>>

\* #handleSegmentInput, lines 1079-1089
typeOption(s, match) ==
  IF match # <<>> THEN advanceSegment(commitWrite(s, s.activeSegment, match[1])) ELSE s

exceedsMax(seg, numVal) ==
  seg.max # <<>> /\ ~isDecimalSegment(seg) /\ numVal # NaN /\ numVal[1] > seg.max[1]

advanceIf(s, advance) == IF advance THEN advanceSegment(s) ELSE s

\* Mutant: a character that overflows max is written like any other.
typeCharacter_writes(s, seg, newBuffer) ==
  advanceIf(commitWrite([s EXCEPT !.segmentBuffer = newBuffer],
                        s.activeSegment, newBuffer),
            shouldAutoAdvance(seg, newBuffer, radixOf(seg)))

\* #handleSegmentInput, lines 1095-1125
typeCharacter(s, seg, newBuffer) ==
  IF exceedsMax(seg, ParseInt(newBuffer, radixOf(seg)))
  THEN advanceSegment(s)
  ELSE advanceIf(commitWrite([s EXCEPT !.segmentBuffer = newBuffer],
                             s.activeSegment, newBuffer),
                 shouldAutoAdvance(seg, newBuffer, radixOf(seg)))

\* #handleSegmentInput, lines 1070-1125
typeInto(s, seg, key) ==
  IF seg.options # <<>> THEN typeOption(s, optionMatch(seg.options, key))
  ELSE IF seg.pattern # "none" /\ ~PatternTest(seg.pattern, key) THEN s
  ELSE typeCharacter(s, seg, Append(s.segmentBuffer, key))

\* #handleSegmentInput(key)
handleSegmentInput(s, key) ==
  IF ~HasSeg(s.activeSegment) \/ isActionSegment(s.activeSegment) THEN s
  ELSE typeInto(showPlaceholder(s), Segs[s.activeSegment + 1], key)

\* get value (), lines 617-618
guardsBefore(result, start) ==
  CHOOSE f \in 0..start :
    /\ \A k \in (f + 1)..start : k <= Len(result) /\ result[k] = ZWS
    /\ f = 0 \/ f > Len(result) \/ result[f] # ZWS

\* get value (), lines 619-620
guardsAfter(result, end) ==
  IF end >= Len(result) THEN end
  ELSE CHOOSE t \in end..Len(result) :
         /\ \A k \in (end + 1)..t : result[k] = ZWS
         /\ t = Len(result) \/ result[t + 1] # ZWS

\* get value (), lines 613-622: the loop over the action segments, last first.
RECURSIVE stripActionSegments(_, _, _)
stripActionSegments(result, ranges, i) ==
  IF i < 1 THEN result
  ELSE IF ~isActionSegment(i - 1) THEN stripActionSegments(result, ranges, i - 1)
  ELSE stripActionSegments(Slice(result, 0, guardsBefore(result, ranges[i].start))
                             \o Slice(result, guardsAfter(result, ranges[i].end), Len(result)),
                           ranges, i - 1)

stripAll(result, ranges) == stripActionSegments(result, ranges, Len(ranges))

\* get value ()
cleanValue(s) ==
  IF s.text = <<>> \/ isPlaceholderState(s) THEN <<>>
  ELSE TrimEnd(stripAll(s.text, instanceRanges(s)))

\* The width, in character cells, that canvas measureText gives a prefix:
\* U+200B has none and every other code unit is taken as one cell.
TextWidth(str) == Len(SelectSeq(str, LAMBDA c : c # ZWS))

\* #charPosFromX, lines 842-848: the smallest i whose prefix is at least x wide.
searchPos(str, x) ==
  IF \E i \in 0..Len(str) : TextWidth(Slice(str, 0, i)) >= x
  THEN CHOOSE i \in 0..Len(str) :
         /\ TextWidth(Slice(str, 0, i)) >= x
         /\ \A j \in 0..(i - 1) : TextWidth(Slice(str, 0, j)) < x
  ELSE Len(str)

\* #charPosFromX(clientX), with clientX counted in character cells from the
\* left edge of the text.
charPosFromX(s, clientX) ==
  searchPos(IF s.text # <<>> THEN s.text ELSE formattedPlaceholder, clientX)

Timer(kind, index, ranges) == [kind |-> kind, index |-> index, ranges |-> ranges]

setTimeout(s, kind, index, ranges) ==
  [s EXCEPT !.timers = Append(@, Timer(kind, index, ranges))]

\* #captureMouseX(event)
captureMouseX(s, clientX) == [s EXCEPT !.pendingClickX = <<clientX>>]

\* #onFocusIn, lines 858-874
fillOrNormalize(s) ==
  IF s.text = <<>>
  THEN updateValidity([setValue(s, formattedPlaceholder) EXCEPT !.placeholderJustSet = TRUE])
  ELSE setValue(noteParse(s), formatGuarded(currentValues(s)))

\* #onFocusIn()
onFocusIn(s) == setTimeout(fillOrNormalize(s), "focusIn", NULL, <<>>)

\* #onBlurOut, lines 885-887
emitBlur(s) == IF NSegs > 0 THEN emit(s, "segmentblur", s.activeSegment, <<>>) ELSE s

\* #onBlurOut, lines 891-895
clearIfPlaceholder(s) ==
  IF isPlaceholderState(s)
  THEN [setValue(IF s.text # <<>> THEN noteParse(s) ELSE s, <<>>)
          EXCEPT !.activeSegment = 0, !.segmentBuffer = <<>>]
  ELSE noteParse(s)

\* #onBlurOut()
onBlurOut(s) == updateValidity(clearIfPlaceholder(emitBlur([s EXCEPT !.actionClass = FALSE])))

\* clickedSeg.onClick(this), when the segment has a callback
fireOnClick(s, index) ==
  IF Segs[index + 1].onClick THEN emit(s, "onClick", index, <<>>) ELSE s

\* Mutant: the end of the action segment's span counts as inside it.
Inside_inclusive(pos, r) == pos >= r.start /\ pos <= r.end

\* pos >= r.start && pos < r.end
Inside(pos, r) == pos >= r.start /\ pos < r.end

\* #onClickOrFocus, lines 925-926
rerouteAfterFill(s, prev) == IF prev # NULL THEN [s EXCEPT !.activeSegment = prev] ELSE s

\* #onClickOrFocus, lines 916-936; known is charPos !== null
routeAfterFill(s, known, charPos, targetIndex) ==
  IF isActionSegment(targetIndex)
  THEN IF known /\ Inside(charPos, instanceRanges(s)[targetIndex + 1])
       THEN fireOnClick(noteParse(s), targetIndex)
       ELSE rerouteAfterFill(noteParse(s), findEditable(targetIndex - 1, 0 - 1))
  ELSE [s EXCEPT !.activeSegment = targetIndex, !.segmentBuffer = <<>>]

\* #onClickOrFocus, lines 911-914
estimatedClick(s, charPos) ==
  routeAfterFill(noteParse([s EXCEPT !.pendingClickX = <<>>]), TRUE, charPos,
                 getCursorSegment(charPos, instanceRanges(s)))

\* Mutant: the mousedown position is not used.
clickAfterFill_first(s) ==
  routeAfterFill([s EXCEPT !.pendingClickX = <<>>], FALSE, NULL, s.activeSegment)

\* #onClickOrFocus, lines 903-937
clickAfterFill(s) ==
  IF s.pendingClickX # <<>> THEN estimatedClick(s, charPosFromX(s, s.pendingClickX[1]))
  ELSE routeAfterFill(s, FALSE, NULL, s.activeSegment)

\* #onClickOrFocus, lines 955-960
rerouteClick(s, fallback) ==
  IF fallback # NULL
  THEN setTimeout([s EXCEPT !.activeSegment = fallback], "highlightCurrent", fallback, <<>>)
  ELSE s

\* #onClickOrFocus, lines 949-969
routeClick(s, pos, ranges, index) ==
  IF isActionSegment(index)
  THEN IF Inside(pos, ranges[index + 1]) THEN fireOnClick(s, index)
       ELSE rerouteClick(s, OrElse(findEditable(index - 1, 0 - 1), findEditable(0, 1)))
  ELSE setTimeout([s EXCEPT !.activeSegment = index, !.segmentBuffer = <<>>],
                  "highlight", index, ranges)

\* #onClickOrFocus, lines 941-943
clickIn(s, pos, ranges) == routeClick(s, pos, ranges, getCursorSegment(pos, ranges))

\* #onClickOrFocus(event); the host has put the cursor where the click fell.
onClickOrFocus(s) ==
  IF s.placeholderJustSet THEN clickAfterFill([s EXCEPT !.placeholderJustSet = FALSE])
  ELSE clickIn(noteParse([s EXCEPT !.pendingClickX = <<>>]), s.selection[1],
               instanceRanges(s))

preventDefault(s) == emit(s, "preventDefault", NULL, <<>>)

\* Mutant: with no segment to move to, the key is suppressed and the active
\* segment is focused again.
navigateTo_refocuses(s, to, always) ==
  IF to # NULL THEN focusSegment(preventDefault(s), to)
  ELSE focusSegment(preventDefault(s), s.activeSegment)

\* #onKeydown, the arrow and Tab cases: always is whether preventDefault is
\* called when there is no segment to move to.
navigateTo(s, to, always) ==
  IF to # NULL THEN focusSegment(preventDefault(s), to)
  ELSE IF always THEN preventDefault(s) ELSE s

Backward(key, shiftKey) == key = "ArrowLeft" \/ (key = "Tab" /\ shiftKey)

\* Mutant: Backspace leaves the segment empty.
backspace_empties(s) ==
  commitWrite([preventDefault(s) EXCEPT !.segmentBuffer = <<>>], s.activeSegment, <<>>)

\* #onKeydown, case 'Backspace'
backspace(s) ==
  commitWrite([preventDefault(s) EXCEPT !.segmentBuffer = <<>>],
              s.activeSegment, placeholderValues[s.activeSegment + 1])

\* #onKeydown, lines 981-1053
namedKey(s, key, shiftKey) ==
  CASE key = "Backspace" -> backspace(s)
    [] key = "Enter" ->
         IF isActionSegment(s.activeSegment) /\ isSelectable(s.activeSegment)
            /\ Segs[s.activeSegment + 1].onClick
         THEN emit(preventDefault(s), "onClick", s.activeSegment, <<>>)
         ELSE s
    [] key \in {"ArrowLeft", "ArrowRight", "Tab"} ->
         navigateTo(s,
                    IF Backward(key, shiftKey)
                    THEN findNavigable(s.activeSegment - 1, 0 - 1)
                    ELSE findNavigable(s.activeSegment + 1, 1),
                    key # "Tab")
    [] key \in {"ArrowUp", "ArrowDown"} ->
         adjustSegment(preventDefault(s), s.activeSegment,
                       IF key = "ArrowUp" THEN 1 ELSE 0 - 1)

NamedKeys == {"Backspace", "Enter", "ArrowLeft", "ArrowRight", "ArrowUp",
              "ArrowDown", "Tab"}

\* #onKeydown(event): key is a printable character (event.key of length 1)
\* or the name of a key; no ctrl or meta modifier is held.
onKeydown(s, key, shiftKey) ==
  IF key \notin NamedKeys THEN handleSegmentInput(preventDefault(s), key)
  ELSE namedKey(s, key, shiftKey)

\* A callback queued with setTimeout(..., 0) runs.
runTimer(s, t) ==
  CASE t.kind = "focusIn" ->
         focusSegment([s EXCEPT !.placeholderJustSet = FALSE], s.activeSegment)
    [] t.kind = "highlight" -> highlightSegment(s, t.index, t.ranges)
    [] t.kind = "highlightCurrent" -> highlightCurrent(s, t.index)

\* ------------------------------------------------------------------------
\* Specification of getSegmentRanges applied to arbitrary parse/format
\* results: parse(value) and format(parse(value)) are drawn freely.
\* ------------------------------------------------------------------------
\* The pure-function specifications involve no instance.
NoInstance ==
  /\ cfg = "" /\ segments = <<>>
  /\ text = <<>> /\ activeSegment = 0 /\ segmentBuffer = <<>>
  /\ placeholderJustSet = FALSE /\ pendingClickX = <<>> /\ customValidity = ""
  /\ selection = <<0, 0>> /\ actionClass = FALSE /\ timers = <<>>
  /\ focused = FALSE /\ attached = FALSE /\ emitted = <<>> /\ parsed = {}
  /\ formattedValues = {}
  /\ nEvents = 0

InitRanges ==
  /\ NoInstance
  /\ fnArgs \in [segmentValues : UNION {[1..k -> StrsUpTo(Alphabet, MaxValLen)] : k \in 0..MaxSegs},
                 formatted : StrsUpTo(Alphabet, MaxTextLen)]
  /\ fnRet = NONE

ResolveRanges ==
  /\ fnRet = NONE
  /\ fnRet' = <<getSegmentRanges(fnArgs.segmentValues, fnArgs.formatted)>>
  /\ UNCHANGED <<instanceVars, fnArgs>>

NextRanges == ResolveRanges

SpecRanges == InitRanges /\ [][NextRanges]_vars

\* ------------------------------------------------------------------------
\* Specification of getCursorSegment applied to arbitrary well-formed
\* range lists (start <= end) and offsets from -5 to MaxOff + 5.
\* ------------------------------------------------------------------------
RangePairs == {r \in [start : 0..MaxOff, end : 0..MaxOff] : r.start <= r.end}

InitCursor ==
  /\ NoInstance
  /\ fnArgs \in [segmentRanges : UNION {[1..k -> RangePairs] : k \in 0..MaxRanges},
                 cursorPos : (0 - 5)..(MaxOff + 5)]
  /\ fnRet = NONE

MapCursor ==
  /\ fnRet = NONE
  /\ fnRet' = <<getCursorSegment(fnArgs.cursorPos, fnArgs.segmentRanges)>>
  /\ UNCHANGED <<instanceVars, fnArgs>>

NextCursor == MapCursor

SpecCursor == InitCursor /\ [][NextCursor]_vars

\* ------------------------------------------------------------------------
\* Specification of getSegmentRanges applied, with a preset's parse and
\* format, to texts in which segments show the same string.
\* ------------------------------------------------------------------------
Years == {<<"y", "y", "y", "y">>, <<"2", "0", "2", "4">>}
Months == {<<"m", "m">>, <<"0", "1">>}
Days == {<<"d", "d">>, <<"0", "1">>}

RepeatTexts(preset) ==
  IF preset = "dateRange"
  THEN {dateRangeFormat(<<y1, m1, d1, y2, m2, d2>>) :
          y1 \in Years, m1 \in Months, d1 \in Days,
          y2 \in Years, m2 \in Months, d2 \in Days}
  ELSE {durationFormat(<<h, m, s>>) :
          h \in {<<"h", "h">>, <<"0", "0">>, <<"0", "1">>},
          m \in {<<"m", "m">>, <<"0", "0">>, <<"0", "1">>},
          s \in {<<"s", "s">>, <<"0", "0">>, <<"0", "1">>}}

InitRepeat ==
  /\ NoInstance
  /\ \E preset \in {"dateRange", "duration"} : \E value \in RepeatTexts(preset) :
       fnArgs = [preset |-> preset, value |-> value]
  /\ fnRet = NONE

\* getSegmentRanges(value, parse, format) with the preset's parse and format
ResolvePreset ==
  /\ fnRet = NONE
  /\ fnRet' = <<getSegmentRanges(Parse(fnArgs.preset, fnArgs.value),
                                  Format(fnArgs.preset, Parse(fnArgs.preset, fnArgs.value)))>>
  /\ UNCHANGED <<instanceVars, fnArgs>>

NextRepeat == ResolvePreset

SpecRepeat == InitRepeat /\ [][NextRepeat]_vars

\* ------------------------------------------------------------------------
\* Specification of #shouldAutoAdvance applied to the presets' segment
\* descriptors and to buffers of up to MaxBufLen typed characters.
\* ------------------------------------------------------------------------
MaxBufLen == 3    \* longest keystroke buffer drawn

BufferChars == {"0", "1", "5", "6", "9", "F"}

PresetSegments ==
  UNION {{segs[i] : i \in 1..Len(segs)} :
           segs \in {ipv4Segments, durationSegments, dateWithPickerSegments,
                     macSegments, calcSegments}}

InitAdvance ==
  /\ NoInstance
  /\ fnArgs \in [seg : PresetSegments,
                 buffer : UNION {[1..k -> BufferChars] : k \in 1..MaxBufLen}]
  /\ fnRet = NONE

DecideAdvance ==
  /\ fnRet = NONE
  /\ fnRet' = <<shouldAutoAdvance(fnArgs.seg, fnArgs.buffer, radixOf(fnArgs.seg))>>
  /\ UNCHANGED <<instanceVars, fnArgs>>

NextAdvance == DecideAdvance

SpecAdvance == InitAdvance /\ [][NextAdvance]_vars

\* ------------------------------------------------------------------------
\* Specification of a SegmentedInput attached to an <input>: the host
\* delivers mousedown, focus, blur, click and keydown events and runs queued
\* timer callbacks; the page calls the public methods.
\* ------------------------------------------------------------------------
MaxEvents == 4    \* events and method calls in one behaviour
MaxTimers == 2    \* timer callbacks queued at once

Keys == {"1", "3", "/"}
ClickXs == {12, 14}              \* mousedown positions, in character cells
SetValues == {<<"1">>}           \* values the page passes to setSegmentValue

\* The value attribute the <input> carries when the instance is constructed.
InitialTexts(c) ==
  CASE c \in {"dateWithPicker", "selectablePicker"} ->
         {<<>>, <<"2", "0", "2", "4", "-", "0", "1", "-", "1", "5", " ">> \o ICON}
    [] c = "ipv4" -> {<<>>, <<"1", ".", "1", ".", "1", ".", "-", "-">>,
                      <<"9", "9", "9", ".", "0", ".", "x", ".", "2", "5", "5">>}
    [] c = "calc" -> {<<>>, <<"1", " ", "/", " ", "1">>}
    [] OTHER -> {<<>>}

\* The instance's fields and the input's observable state as one record,
\* with a fresh log for the handler about to run.
State ==
  [text |-> text, activeSegment |-> activeSegment, segmentBuffer |-> segmentBuffer,
   placeholderJustSet |-> placeholderJustSet, pendingClickX |-> pendingClickX,
   customValidity |-> customValidity, selection |-> selection,
   actionClass |-> actionClass, timers |-> timers, emitted |-> <<>>, parsed |-> {},
   formattedValues |-> {}]

Becomes(after) ==
  \E s \in {after} :
    /\ text' = s.text
    /\ activeSegment' = s.activeSegment
    /\ segmentBuffer' = s.segmentBuffer
    /\ placeholderJustSet' = s.placeholderJustSet
    /\ pendingClickX' = s.pendingClickX
    /\ customValidity' = s.customValidity
    /\ selection' = s.selection
    /\ actionClass' = s.actionClass
    /\ timers' = s.timers
    /\ emitted' = s.emitted
    /\ parsed' = s.parsed
    /\ formattedValues' = s.formattedValues

\* constructor, lines 546-578: the fields of the new instance and the
\* initial validity, for an input whose value is t.
constructed(t) ==
  LET first == findEditable(0, 1)
  IN updateValidity(
       [text |-> t, activeSegment |-> IF first # NULL THEN first ELSE 0,
        segmentBuffer |-> <<>>, placeholderJustSet |-> FALSE,
        pendingClickX |-> <<>>, customValidity |-> "",
        selection |-> <<Len(t), Len(t)>>, actionClass |-> FALSE,
        timers |-> <<>>, emitted |-> <<>>, parsed |-> {},
        formattedValues |-> {placeholderValues}])

\* constructor(input, options) with a preset's options, on an input whose
\* value is t and which has focus or not.
ConstructOn(c, t, hasFocus) ==
  /\ cfg = c /\ segments = Segments(c)
  /\ \E s1 \in {constructed(t)} :
        /\ text = s1.text /\ activeSegment = s1.activeSegment
        /\ segmentBuffer = s1.segmentBuffer
        /\ placeholderJustSet = s1.placeholderJustSet
        /\ pendingClickX = s1.pendingClickX
        /\ customValidity = s1.customValidity
        /\ selection = s1.selection /\ actionClass = s1.actionClass
        /\ timers = s1.timers /\ emitted = s1.emitted /\ parsed = s1.parsed
        /\ formattedValues = s1.formattedValues
  /\ focused = hasFocus /\ attached = TRUE /\ nEvents = 0
  /\ fnArgs = <<>> /\ fnRet = NONE

Construct(c, t) == ConstructOn(c, t, FALSE)

Init == \E c \in ConfigNames : \E t \in InitialTexts(c) : Construct(c, t)

\* Every event or call is counted, up to MaxEvents in one behaviour.  A read
\* of instance.value leaves the instance as it is, so what can follow it is
\* what can follow the state it was made in, and is explored from there.
Countable == fnRet = NONE /\ nEvents < MaxEvents

Counted == nEvents' = nEvents + 1 /\ UNCHANGED <<cfg, segments, fnArgs>>

\* mousedown on the input
MouseDown ==
  /\ Countable
  /\ attached
  /\ \E clientX \in ClickXs : Becomes(captureMouseX(State, clientX))
  /\ fnRet' = NONE
  /\ UNCHANGED <<focused, attached>> /\ Counted

\* the input gains focus
Focus ==
  /\ Countable
  /\ attached /\ ~focused /\ Len(timers) < MaxTimers
  /\ Becomes(onFocusIn(State))
  /\ focused' = TRUE /\ fnRet' = NONE
  /\ UNCHANGED attached /\ Counted

\* the input loses focus
Blur ==
  /\ Countable
  /\ attached /\ focused
  /\ Becomes(onBlurOut(State))
  /\ focused' = FALSE /\ fnRet' = NONE
  /\ UNCHANGED attached /\ Counted

\* click on the focused input: the host has collapsed the selection at the
\* offset pos of the click.
Click ==
  /\ Countable
  /\ attached /\ focused /\ Len(timers) < MaxTimers
  /\ \E pos \in 0..Len(text) :
       Becomes(onClickOrFocus([State EXCEPT !.selection = <<pos, pos>>]))
  /\ fnRet' = NONE
  /\ UNCHANGED <<focused, attached>> /\ Counted

\* keydown on the focused input
KeyDown ==
  /\ Countable
  /\ attached /\ focused
  /\ \E key \in Keys \cup NamedKeys : \E shiftKey \in BOOLEAN :
       /\ shiftKey => key = "Tab"
       /\ Becomes(onKeydown(State, key, shiftKey))
  /\ fnRet' = NONE
  /\ UNCHANGED <<focused, attached>> /\ Counted

\* the oldest queued timer callback runs
TimerFires ==
  /\ Countable
  /\ timers # <<>>
  /\ Becomes(runTimer([State EXCEPT !.timers = Tail(@)], Head(timers)))
  /\ fnRet' = NONE
  /\ UNCHANGED <<focused, attached>> /\ Counted

\* instance.focusSegment(index)
CallFocusSegment ==
  /\ Countable
  /\ \E index \in (0 - 1)..NSegs : Becomes(focusSegment(State, index))
  /\ fnRet' = NONE
  /\ UNCHANGED <<focused, attached>> /\ Counted

\* instance.setSegmentValue(index, newValue)
CallSetSegmentValue ==
  /\ Countable
  /\ \E index \in 0..(NSegs - 1) : \E newValue \in SetValues :
       Becomes(setSegmentValue(State, index, newValue))
  /\ fnRet' = NONE
  /\ UNCHANGED <<focused, attached>> /\ Counted

\* instance.increment() and instance.decrement()
CallAdjust ==
  /\ Countable
  /\ \E direction \in {1, 0 - 1} : Becomes(adjustSegment(State, activeSegment, direction))
  /\ fnRet' = NONE
  /\ UNCHANGED <<focused, attached>> /\ Counted

\* reading instance.value
ReadValue ==
  /\ fnRet = NONE
  /\ fnRet' = <<cleanValue(State)>>
  /\ emitted' = <<>>
  /\ parsed' = IF text = <<>> THEN {} ELSE {stripZWS(text)}
  /\ formattedValues' = {}
  /\ UNCHANGED <<text, activeSegment, segmentBuffer, placeholderJustSet, pendingClickX,
                 customValidity, selection, actionClass, timers, focused, attached,
                 nEvents, cfg, segments, fnArgs>>

\* The event types the constructor subscribes to, lines 586-590.
Listeners == {"mousedown", "click", "focus", "blur", "keydown"}

\* this.input.removeEventListener(type, the listener bound in the constructor)
removeEventListener(s, type) == emit(s, "removeEventListener", NULL, <<type>>)

\* Mutant: the keydown listener stays registered.
destroy_keepsKeydown(s) ==
  removeEventListener(
    removeEventListener(
      removeEventListener(removeEventListener(s, "mousedown"), "click"), "focus"), "blur")

\* destroy()
destroy(s) ==
  removeEventListener(
    removeEventListener(
      removeEventListener(
        removeEventListener(removeEventListener(s, "mousedown"), "click"), "focus"),
      "blur"),
    "keydown")

\* The event types a handler's log shows as unsubscribed.
Removed(s) ==
  {s.emitted[k].value[1] :
     k \in {j \in 1..Len(s.emitted) : s.emitted[j].type = "removeEventListener"}}

\* instance.destroy()
Destroy ==
  /\ Countable
  /\ attached
  /\ Becomes(destroy(State))
  /\ attached' = (Listeners \ Removed(destroy(State)) # {})
  /\ fnRet' = NONE
  /\ UNCHANGED focused /\ Counted

\* mousedown, click, focus, blur or keydown on an input none of whose
\* listeners is registered any more: the host runs no handler of the instance.
DetachedEvent ==
  /\ Countable
  /\ ~attached
  /\ \E type \in Listeners :
       /\ type = "focus" => ~focused
       /\ type \in {"click", "blur", "keydown"} => focused
       /\ focused' = CASE type = "focus" -> TRUE
                        [] type = "blur" -> FALSE
                        [] OTHER -> focused
  /\ Becomes(State)
  /\ fnRet' = NONE
  /\ UNCHANGED attached /\ Counted

Next ==
  \/ MouseDown \/ Focus \/ Blur \/ Click \/ KeyDown \/ TimerFires
  \/ CallFocusSegment \/ CallSetSegmentValue \/ CallAdjust \/ ReadValue \/ Destroy
  \/ DetachedEvent

Spec == Init /\ [][Next]_vars

InitIPv4 == \E t \in InitialTexts("ipv4") : Construct("ipv4", t)
SpecIPv4 == InitIPv4 /\ [][Next]_vars

InitDuration == Construct("duration", <<>>)
SpecDuration == InitDuration /\ [][Next]_vars

InitPicker == \E t \in InitialTexts("dateWithPicker") : Construct("dateWithPicker", t)
SpecPicker == InitPicker /\ [][Next]_vars

InitCalc == \E t \in InitialTexts("calc") : Construct("calc", t)
SpecCalc == InitCalc /\ [][Next]_vars

InitSelectable ==
  \E t \in InitialTexts("selectablePicker") : Construct("selectablePicker", t)
SpecSelectable == InitSelectable /\ [][Next]_vars

\* The instance is constructed on an empty IPv4 input that already has
\* focus (an autofocus input): no focus event has run #onFocusIn.
InitAutofocus == ConstructOn("ipv4", <<>>, TRUE)
SpecAutofocus == InitAutofocus /\ [][Next]_vars

\* Every built-in preset on an empty input that is focused and whose
\* segments the page focuses.
InitPlaceholder == \E c \in AllPresets : Construct(c, <<>>)
NextPlaceholder == Focus \/ TimerFires \/ CallFocusSegment
SpecPlaceholder == InitPlaceholder /\ [][NextPlaceholder]_vars

\* The printable keys pressed on a preset: a digit, a letter that is a
\* hexadecimal digit, the point, every unit of the preset's placeholders and
\* the first unit of every option.
PresetKeys ==
  {"1", "a", "."}
    \cup UNION {{placeholderValues[i][j] : j \in 1..Len(placeholderValues[i])} :
                 i \in {k \in 1..NSegs : ~isActionSegment(k - 1)}}
    \cup UNION {{Segs[i].options[k][1] : k \in 1..Len(Segs[i].options)} : i \in 1..NSegs}

\* keydown of one of PresetKeys, Backspace, ArrowUp or ArrowDown on the
\* focused input
KeyDownPreset ==
  /\ Countable
  /\ attached /\ focused
  /\ \E key \in PresetKeys \cup {"Backspace", "ArrowUp", "ArrowDown"} :
       Becomes(onKeydown(State, key, FALSE))
  /\ fnRet' = NONE
  /\ UNCHANGED <<focused, attached>> /\ Counted

\* Every built-in preset on an empty input: the user focuses it, types,
\* steps the value up and down and leaves; the page focuses segments.
NextPresets == Focus \/ Blur \/ KeyDownPreset \/ TimerFires \/ CallFocusSegment
SpecPresets == InitPlaceholder /\ [][NextPresets]_vars

\* The date picker, the date picker with a selectable button and the toolbar
\* options, each on an empty input that is focused, clicked and driven with
\* the keyboard.
InitNavigate ==
  \E c \in {"dateWithPicker", "selectablePicker", "toolbar"} : Construct(c, <<>>)
NextNavigate == Focus \/ Click \/ KeyDown \/ TimerFires \/ CallFocusSegment
SpecNavigate == InitNavigate /\ [][NextNavigate]_vars

\* The same for the presets that index.js exports from src/presets.js:
\* ipv4, ipv6, duration, uuid and mac are those of the list above.
ExportedPresets == {"ipv4", "ipv6", "duration", "rgbaLetters", "uuid", "mac"}
InitExported == \E c \in ExportedPresets : Construct(c, <<>>)
SpecExported == InitExported /\ [][NextPlaceholder]_vars

\* The enum segments: the operator of calc, the symbol of currency and the
\* page's choice, each on an empty input that is focused and typed into.
InitChoice == \E c \in {"choice", "calc", "currency"} : Construct(c, <<>>)
SpecChoice == InitChoice /\ [][NextPresets]_vars

\* A field whose first segment is an action segment.
InitLeading == Construct("leadingAction", <<>>)
SpecLeading == InitLeading /\ [][Next]_vars

\* Keydown events interleaved with the callbacks that focus and click defer,
\* on an IPv4 field that starts empty.
\* The field has been focused and the focus callback has run: it shows the
\* placeholder text with octet 0 selected.  Events are counted from here.
focusedField ==
  runTimer([onFocusIn(constructed(<<>>)) EXCEPT !.timers = <<>>],
           Timer("focusIn", NULL, <<>>))

InitInterleaved ==
  /\ cfg = "ipv4" /\ segments = Segments("ipv4")
  /\ \E s1 \in {focusedField} :
        /\ text = s1.text /\ activeSegment = s1.activeSegment
        /\ segmentBuffer = s1.segmentBuffer
        /\ placeholderJustSet = s1.placeholderJustSet
        /\ pendingClickX = s1.pendingClickX
        /\ customValidity = s1.customValidity
        /\ selection = s1.selection /\ actionClass = s1.actionClass
        /\ timers = s1.timers /\ emitted = s1.emitted /\ parsed = s1.parsed
        /\ formattedValues = s1.formattedValues
  /\ focused = TRUE /\ attached = TRUE /\ nEvents = 0
  /\ fnArgs = <<>> /\ fnRet = NONE

NextInterleaved == Blur \/ Focus \/ Click \/ KeyDown \/ TimerFires
SpecInterleaved == InitInterleaved /\ [][NextInterleaved]_vars

\* The keys of a numeric segment: digits, a hexadecimal digit, Backspace, the
\* stepping arrows and ArrowRight to reach the next segment.
DigitKeys == {"0", "1", "3", "9", "f"}

KeyDownDigit ==
  /\ Countable
  /\ attached /\ focused
  /\ \E key \in DigitKeys \cup {"Backspace", "ArrowUp", "ArrowDown", "ArrowRight"} :
       Becomes(onKeydown(State, key, FALSE))
  /\ fnRet' = NONE
  /\ UNCHANGED <<focused, attached>> /\ Counted

\* Presets whose segments declare min and max, on an empty input: the user
\* focuses it and types digits, resets and steps; the page steps too.
InitDigits ==
  \E c \in {"ipv4", "mac", "date", "time", "expiryDate"} : Construct(c, <<>>)
NextDigits == Focus \/ TimerFires \/ KeyDownDigit \/ CallAdjust
SpecDigits == InitDigits /\ [][NextDigits]_vars

\* ------------------------------------------------------------------------
\* Specification of the constructor called on an element and options that
\* may be unfit.  fnArgs holds the call's arguments and what the element
\* carried before the call; fnRet holds the error thrown ("" when none) and
\* the element's placeholder attribute after the call.
\* ------------------------------------------------------------------------
TagNames == {"null", "DIV", "TEXTAREA", "INPUT"}   \* "null": no element given
TypeOfs == {"function", "undefined", "string"}    \* typeof options.format / parse
HostPlaceholders == {<<>>, <<"I", "P">>}           \* the placeholder attribute
HostValidity == {"", "stale"}                     \* a custom validity set earlier

\* Mutant: any element is accepted.
validInput_anyTag(input) == input # "null"

\* !input || input.tagName !== 'INPUT'
validInput(input) == input # "null" /\ input = "INPUT"

\* typeof options.format !== 'function' || typeof options.parse !== 'function'
validOptions(options) == options.format = "function" /\ options.parse = "function"

InitAttach ==
  /\ \E c \in ConfigNames : \E t \in InitialTexts(c) :
       /\ cfg = c /\ segments = Segments(c)
       /\ text = t /\ selection = <<Len(t), Len(t)>>
  /\ customValidity \in HostValidity
  /\ activeSegment = 0 /\ segmentBuffer = <<>> /\ placeholderJustSet = FALSE
  /\ pendingClickX = <<>> /\ actionClass = FALSE /\ timers = <<>>
  /\ focused = FALSE /\ attached = FALSE /\ emitted = <<>> /\ parsed = {}
  /\ formattedValues = {} /\ nEvents = 0
  /\ \E input \in TagNames : \E f \in TypeOfs : \E p \in TypeOfs :
     \E ph \in HostPlaceholders :
       fnArgs = [input |-> input, options |-> [format |-> f, parse |-> p],
                 value |-> text, placeholder |-> ph, validity |-> customValidity]
  /\ fnRet = NONE

\* throw new TypeError(...) before anything is assigned
Throws(message) ==
  /\ fnRet' = <<[threw |-> message, placeholder |-> fnArgs.placeholder]>>
  /\ UNCHANGED instanceVars

\* new SegmentedInput(input, options)
Attach ==
  /\ fnRet = NONE /\ ~attached
  /\ IF ~validInput(fnArgs.input)
     THEN Throws("SegmentedInput: first argument must be an <input> element")
     ELSE IF ~validOptions(fnArgs.options)
     THEN Throws("SegmentedInput: options.format and options.parse must be functions")
     ELSE /\ Becomes(constructed(text))
          /\ attached' = TRUE
          /\ fnRet' = <<[threw |-> "",
                         placeholder |-> IF fnArgs.placeholder = <<>>
                                         THEN Format(cfg, placeholderValues)
                                         ELSE fnArgs.placeholder]>>
          /\ UNCHANGED <<cfg, segments, focused, nEvents>>
  /\ UNCHANGED fnArgs

NextAttach == Attach

SpecAttach == InitAttach /\ [][NextAttach]_vars

\* ------------------------------------------------------------------------
\* Claims about the range resolver (checked under SpecRanges)
\* ------------------------------------------------------------------------
\* sub occurs in s at offset k
OccursAt(s, sub, k) ==
  /\ k >= 0
  /\ k + Len(sub) <= Len(s)
  /\ \A j \in 1..Len(sub) : s[k + j] = sub[j]

\* The search cursor in force for segment i: the largest end among the
\* ranges before it (0 for the first segment).
CursorBefore(ranges, i) == Max({0} \cup {ranges[j].end : j \in 1..(i - 1)})

\* Where segment i's value occurs at or after its search cursor.
OccurrencesFrom(ranges, i) ==
  {k \in CursorBefore(ranges, i)..Len(fnArgs.formatted) :
     OccursAt(fnArgs.formatted, fnArgs.segmentValues[i], k)}

\* C1: getSegmentRanges returns exactly one {start,end,value} range per
\* value returned by parse, for every text; a value that does not occur in
\* the normalized string at or after the search cursor yields a zero-width
\* range at the cursor, and the cursor is not advanced by it (the next value
\* is still located from the same cursor); a value that occurs gets its
\* first occurrence at or after the cursor.
C1_OneRangePerValue ==
  fnRet # NONE =>
    LET ranges == fnRet[1]
        vals == fnArgs.segmentValues
    IN /\ Len(ranges) = Len(vals)
       /\ \A i \in 1..Len(vals) :
            LET cursor == CursorBefore(ranges, i)
                occ == OccurrencesFrom(ranges, i)
            IN /\ ranges[i].value = vals[i]
               /\ occ = {} => ranges[i].start = cursor /\ ranges[i].end = cursor
               /\ occ # {} => /\ ranges[i].start = Min(occ)
                              /\ ranges[i].end = Min(occ) + Len(vals[i])

\* Witness of C1: a missing value got a zero-width range and the value after
\* it was then found from the same cursor.
C1_Witness ==
  /\ fnRet # NONE
  /\ Len(fnRet[1]) = 2
  /\ OccurrencesFrom(fnRet[1], 1) = {}
  /\ fnRet[1][1].start = 0 /\ fnRet[1][1].end = 0
  /\ Len(fnArgs.segmentValues[1]) = 2
  /\ fnRet[1][2].start = 1 /\ fnRet[1][2].end = 3

\* C2: the ranges are ascending and non-overlapping: start_i <= end_i, and
\* end_i <= start_j for i < j, with every offset within [0, length of the
\* normalized string].
C2_AscendingDisjoint ==
  fnRet # NONE =>
    LET ranges == fnRet[1]
        n == Len(ranges)
    IN /\ \A i \in 1..n : /\ 0 <= ranges[i].start
                          /\ ranges[i].start <= ranges[i].end
                          /\ ranges[i].end <= Len(fnArgs.formatted)
       /\ \A i \in 1..n : \A j \in 1..n : i < j => ranges[i].end <= ranges[j].start

\* Witness of C2: two segments holding the same non-empty value were given
\* two different occurrences.
C2_Witness ==
  /\ fnRet # NONE
  /\ Len(fnRet[1]) = 2
  /\ fnArgs.segmentValues[1] = fnArgs.segmentValues[2]
  /\ Len(fnArgs.segmentValues[1]) = 2
  /\ fnRet[1][1].end - fnRet[1][1].start = 2
  /\ fnRet[1][2].end - fnRet[1][2].start = 2
  /\ fnRet[1][1].end <= fnRet[1][2].start

\* ------------------------------------------------------------------------
\* Claims about the cursor mapper (checked under SpecCursor)
\* ------------------------------------------------------------------------
\* C3: cursor mapping is total: for every offset from -5 to textLength + 5
\* and every non-empty list of n ranges the result is an index in [0, n-1];
\* for an empty list it is 0.
C3_CursorTotal ==
  fnRet # NONE =>
    LET n == Len(fnArgs.segmentRanges)
    IN IF n = 0 THEN fnRet[1] = 0 ELSE fnRet[1] \in 0..(n - 1)

\* Witness of C3: an offset 5 past the text end mapped into a 3-range list.
C3_Witness ==
  /\ fnRet # NONE
  /\ Len(fnArgs.segmentRanges) = 3
  /\ fnArgs.cursorPos = MaxOff + 5
  /\ fnRet[1] = 2

Ascending(ranges) ==
  \A i \in 1..(Len(ranges) - 1) : ranges[i].end <= ranges[i + 1].start

\* C4: an offset within [start,end] (both inclusive) of some range maps to
\* the lowest such index; for ranges in ascending order, an offset before
\* the first range maps to 0, one after the last range maps to n-1, and one
\* strictly between range i and range i+1 maps to the nearer of the two, an
\* exact tie going to the left one.
C4_CursorRules ==
  fnRet # NONE =>
    LET r == fnArgs.segmentRanges
        n == Len(r)
        pos == fnArgs.cursorPos
        inside == {i \in 1..n : r[i].start <= pos /\ pos <= r[i].end}
    IN /\ inside # {} => fnRet[1] = Min(inside) - 1
       /\ (n > 0 /\ Ascending(r)) =>
            /\ pos < r[1].start => fnRet[1] = 0
            /\ pos > r[n].end => fnRet[1] = n - 1
            /\ \A i \in 1..(n - 1) :
                 (r[i].end < pos /\ pos < r[i + 1].start) =>
                   fnRet[1] = IF pos - r[i].end <= r[i + 1].start - pos
                              THEN i - 1 ELSE i

\* Witness of C4: an offset exactly halfway between two ranges went left.
C4_Witness ==
  /\ fnRet # NONE
  /\ Len(fnArgs.segmentRanges) = 2
  /\ fnArgs.segmentRanges[1].end = 1
  /\ fnArgs.segmentRanges[2].start = 3
  /\ fnArgs.cursorPos = 2
  /\ fnRet[1] = 0

\* ------------------------------------------------------------------------
\* Claims about the attached instance
\* ------------------------------------------------------------------------
Emitted(type) == {k \in 1..Len(emitted) : emitted[k].type = type}

\* seg.value of every descriptor of the preset
DefaultValues == [i \in 1..NSegs |-> Segs[i].value[1]]

\* C5: round-trip.  For the preset the instance was built with,
\* parse(format(values)) = values for the default values, for the
\* placeholder values, and for every array in which a typed-character commit
\* wrote the raw keystroke buffer, or an increment or decrement wrote the
\* rendered number, before handing it to format.
C5_RoundTrip ==
  /\ Parse(cfg, Format(cfg, DefaultValues)) = DefaultValues
  /\ \A values \in formattedValues : Parse(cfg, Format(cfg, values)) = values

\* The offset a click is routed by: the host's cursor offset, or, right
\* after focus filled an empty field, the offset estimated from the
\* mousedown position (NULL when no mousedown was seen).
ClickOffset ==
  IF ~placeholderJustSet THEN selection'[1]
  ELSE IF pendingClickX # <<>> THEN charPosFromX(State, pendingClickX[1])
  ELSE NULL

ActionIndexes == {i \in 0..(NSegs - 1) : isActionSegment(i)}

Fired(i) == \E k \in 1..Len(emitted') :
              emitted'[k].type = "onClick" /\ emitted'[k].index = i

\* The routing of one click at offset o around the action segment i whose
\* guarded value spans [r.start, r.end] with a guard on either side.
ClickRouted(i, r, o) ==
  /\ (r.start <= o /\ o < r.end) => Fired(i) /\ activeSegment' = activeSegment
  /\ (o = r.start - 1 \/ o >= r.end) =>
       /\ ~Fired(i)
       /\ activeSegment' = findEditable(i - 1, 0 - 1)

\* C6: click routing around a guarded action segment.  A click whose offset
\* lies inside the icon's span (exclusive end) invokes the action callback
\* and leaves activeSegment as it was; a click at the left guard boundary,
\* at or past the right guard, or at the end of the text never invokes the
\* callback and makes the nearest preceding editable segment active.
C6_ClickRouting ==
  [][(/\ attached /\ focused /\ text # <<>> /\ nEvents' = nEvents + 1
      /\ selection'[1] = selection'[2] /\ ClickOffset # NULL
      /\ Click) =>
       \A i \in ActionIndexes : ClickRouted(i, instanceRanges(State)[i + 1], ClickOffset)]_vars

\* A click inside the icon has invoked the callback of segment 3.
C6_Witness ==
  /\ cfg = "dateWithPicker"
  /\ selection \in {<<12, 12>>, <<13, 13>>}
  /\ \E k \in Emitted("onClick") : emitted[k].index = 3

\* C7: whatever the operation (range computation, value read or write,
\* focus normalization, validity evaluation, clean-value read) and whatever
\* the text, no string handed to parse contains U+200B.
C7_ParseNeverSeesGuards ==
  \A str \in parsed : \A k \in 1..Len(str) : str[k] # ZWS

\* parse was handed the contents of a text that holds guards.
C7_Witness ==
  /\ parsed # {}
  /\ \E k \in 1..Len(text) : text[k] = ZWS

\* The displayed text without the action segments' text and the guards.
WithoutActions(str) ==
  SelectSeq(str, LAMBDA c : c # ZWS /\ \A i \in ActionIndexes :
                              \A k \in 1..Len(placeholderValues[i + 1]) :
                                 placeholderValues[i + 1][k] # c)

\* C8: the clean-value accessor returns the text with every action
\* segment's text and every guard removed and trailing whitespace trimmed,
\* and "" when the text is empty or every non-action segment is at its
\* placeholder, whatever text the field holds, guarded or not.
C8_CleanValue ==
  fnRet # NONE =>
    fnRet[1] = IF text = <<>> \/ allPlaceholders(currentValues(State)) THEN <<>>
               ELSE TrimEnd(WithoutActions(text))

\* C9: whenever an event or operation changes activeSegment, segmentBuffer
\* is empty when its handler returns.
C9_BufferCleared ==
  [][activeSegment' # activeSegment => segmentBuffer' = <<>>]_vars

\* The validity #updateValidity is to report for the current text.
ExpectedValidity ==
  IF text = <<>> THEN ""
  ELSE IF \E i \in 1..NSegs : /\ ~isActionSegment(i - 1)
                              /\ currentValues(State)[i] = placeholderValues[i]
       THEN InvalidMessage
       ELSE ""

\* C10: placeholder/validity sequence of the 4-segment IPv4 preset.  When a
\* handler has evaluated validity, the custom validity is the configured
\* message iff the text is non-empty and some non-action segment's value
\* equals its placeholder, and is cleared otherwise: all placeholders report
\* incomplete, four real values report complete, and a segment reset with
\* Backspace reports incomplete again.
C10_Validity ==
  Emitted("setCustomValidity") # {} =>
    /\ customValidity = ExpectedValidity
    /\ text = formattedPlaceholder => customValidity = InvalidMessage
    /\ (text # <<>> /\ \A i \in 1..NSegs : AllDigits(currentValues(State)[i]))
         => customValidity = ""
    /\ \A k \in Emitted("segmentchange") :
         emitted[k].value = placeholderValues[emitted[k].index + 1]
           => customValidity = InvalidMessage

\* Backspace has reset octet 0 of a field whose other octets hold real
\* values, and the field reports incomplete.
C10_Witness ==
  /\ cfg = "ipv4"
  /\ currentValues(State) = << <<"-", "-">>, <<"1">>, <<"1">>, <<"1">> >>
  /\ Emitted("preventDefault") # {}
  /\ \E k \in Emitted("segmentchange") :
       emitted[k].index = 0 /\ emitted[k].value = <<"-", "-">>
  /\ customValidity = InvalidMessage


\* Every non-action segment of the displayed text equals its placeholder.
StillPlaceholders ==
  \A i \in 1..NSegs :
    isActionSegment(i - 1) \/ currentValues(State)[i] = placeholderValues[i]

\* The validity due for the text a handler leaves behind.
ValidityAfter ==
  IF text' = <<>> THEN ""
  ELSE IF \E i \in 1..NSegs : /\ ~isActionSegment(i - 1)
                              /\ Parse(cfg, stripZWS(text'))[i] = placeholderValues[i]
       THEN InvalidMessage
       ELSE ""

\* What one blur does to the field.
BlurEffect ==
  /\ IF StillPlaceholders
     THEN text' = <<>> /\ activeSegment' = 0 /\ segmentBuffer' = <<>>
     ELSE UNCHANGED <<text, activeSegment, segmentBuffer>>
  /\ \E k \in 1..Len(emitted') : emitted'[k].type = "setCustomValidity"
  /\ customValidity' = ValidityAfter

\* C11: focusing an empty field materializes the guarded formatted
\* placeholder text; a blur clears the text back to empty, resets
\* activeSegment to 0 and empties segmentBuffer if and only if every
\* non-action segment still equals its placeholder, and otherwise leaves
\* text, activeSegment and segmentBuffer unchanged; validity is recomputed on
\* every blur.
C11_FocusBlur ==
  [][/\ (attached /\ ~focused /\ focused' /\ text = <<>> /\ Focus) =>
          /\ text' = guardRaw(Format(cfg, placeholderValues), placeholderValues)
          /\ cfg = "dateWithPicker" =>
               text' = <<"y", "y", "y", "y", "-", "m", "m", "-", "d", "d", " ",
                         ZWS, HI, LO, ZWS>>
     /\ (attached /\ focused /\ ~focused' /\ Blur) => BlurEffect]_vars

\* A blur has cleared a field that focus had filled with its placeholder.
C11_Witness ==
  /\ attached /\ ~focused /\ nEvents >= 2
  /\ text = <<>> /\ activeSegment = 0 /\ segmentBuffer = <<>>
  /\ Emitted("segmentblur") # {}
  /\ Emitted("setCustomValidity") # {}

\* The key is admitted by the active segment (integer-valued, with a max)
\* and the buffer with the key appended reads, in the segment's radix, as a
\* number above max.
Overflows(seg, key) ==
  /\ seg.type # "action" /\ ~seg.onClick /\ seg.options = <<>>
  /\ seg.max # <<>> /\ seg.decimals = 0
  /\ DigitValue(key) < (IF seg.radix # <<>> THEN seg.radix[1] ELSE 10)
  /\ seg.pattern # "none" => PatternTest(seg.pattern, key)
  /\ \A k \in 1..Len(segmentBuffer) :
       DigitValue(segmentBuffer[k]) < (IF seg.radix # <<>> THEN seg.radix[1] ELSE 10)
  /\ DigitsToInt(Append(segmentBuffer, key),
                 IF seg.radix # <<>> THEN seg.radix[1] ELSE 10, 0) > seg.max[1]

\* The editable segments after the active one.
EditableAfter == {j \in (activeSegment + 1)..(NSegs - 1) : ~isActionSegment(j)}

\* C12: typed overflow.  On an integer-valued segment with a max, a typed
\* character that would make the buffer's number (in the segment's radix)
\* exceed max is discarded: the keystroke leaves the displayed text as it
\* was, the next segment's buffer does not hold the character, and the
\* controller moves to the next editable segment with an empty buffer, or
\* stays on the last editable segment and empties the buffer.
C12_TypedOverflow ==
  [][\A key \in Keys :
       (/\ attached /\ focused /\ nEvents' = nEvents + 1 /\ text # <<>>
        /\ HasSeg(activeSegment)
        /\ Overflows(Segs[activeSegment + 1], key)
        /\ Becomes(onKeydown(State, key, FALSE))) =>
         /\ text' = text
         /\ segmentBuffer' = <<>>
         /\ activeSegment' = IF EditableAfter # {} THEN Min(EditableAfter)
                             ELSE activeSegment]_vars

\* "3" typed after "3" in the day segment (max 31), the last editable one,
\* was discarded: the day still reads 03 and the buffer is empty.
C12_Witness ==
  /\ cfg = "dateWithPicker" /\ focused
  /\ activeSegment = 2 /\ segmentBuffer = <<>>
  /\ currentValues(State)[3] = <<"0", "3">>
  /\ emitted = <<Ev("preventDefault", NULL, <<>>)>>
  /\ parsed # {}

\* ------------------------------------------------------------------------
\* Claims about the auto-advance decision (checked under SpecAdvance)
\* ------------------------------------------------------------------------
RECURSIVE Power(_, _)
Power(b, n) == IF n = 0 THEN 1 ELSE b * Power(b, n - 1)

\* The number of digits of n written in radix.
DigitCount(n, radix) == Min({k \in 1..5 : Power(radix, k) > n})

\* The number a buffer of digits denotes in radix.
RECURSIVE BufferValue(_, _)
BufferValue(buffer, radix) ==
  IF buffer = <<>> THEN 0
  ELSE BufferValue(SubSeq(buffer, 1, Len(buffer) - 1), radix) * radix
       + DigitValue(buffer[Len(buffer)])

\* The characters of the buffer were accepted by the segment.
Accepted(seg, buffer) ==
  \A k \in 1..Len(buffer) :
    /\ PatternTest(seg.pattern, buffer[k])
    /\ seg.max # <<>> => DigitValue(buffer[k]) < (IF seg.radix # <<>> THEN seg.radix[1] ELSE 10)

Minutes == durationSegments[2]

\* C13: the auto-advance decision after an accepted typed character.  With
\* an explicit maxLength, advance iff len(buffer) >= maxLength; otherwise
\* with no max never advance; otherwise, for an integer or hex segment,
\* advance iff len(buffer) >= the number of digits of max written in radix
\* or value(buffer) * radix > max.  With max = 59 in radix 10 the buffer "6"
\* advances at once, "5" does not, and "59" advances at length 2.
C13_AutoAdvance ==
  (fnRet # NONE /\ Accepted(fnArgs.seg, fnArgs.buffer)) =>
    LET seg == fnArgs.seg
        buffer == fnArgs.buffer
        radix == IF seg.radix # <<>> THEN seg.radix[1] ELSE 10
    IN /\ seg.maxLength # <<>> => (fnRet[1] <=> Len(buffer) >= seg.maxLength[1])
       /\ (seg.maxLength = <<>> /\ seg.max = <<>>) => ~fnRet[1]
       /\ (seg.maxLength = <<>> /\ seg.max # <<>> /\ seg.decimals = 0) =>
            (fnRet[1] <=> \/ Len(buffer) >= DigitCount(seg.max[1], radix)
                          \/ BufferValue(buffer, radix) * radix > seg.max[1])
       /\ (seg = Minutes /\ buffer = <<"6">>) => fnRet[1]
       /\ (seg = Minutes /\ buffer = <<"5">>) => ~fnRet[1]
       /\ (seg = Minutes /\ buffer = <<"5", "9">>) => fnRet[1]

\* The minutes segment (max 59) advanced on the one-character buffer "6".
C13_Witness ==
  /\ fnRet = <<TRUE>>
  /\ fnArgs.seg.max = <<59>> /\ fnArgs.seg.maxLength = <<>>
  /\ fnArgs.buffer = <<"6">>

\* C14: Backspace resets only the active segment.  After Backspace the
\* active segment's value is its placeholder string (not the empty string),
\* segmentBuffer is empty, activeSegment is unchanged, and every other
\* segment has the value it had before the keystroke.
C14_Backspace ==
  [][(/\ attached /\ focused /\ nEvents' = nEvents + 1
      /\ \E k \in 1..Len(emitted') : emitted'[k].type = "segmentchange"
      /\ Becomes(onKeydown(State, "Backspace", FALSE))) =>
       /\ activeSegment' = activeSegment
       /\ segmentBuffer' = <<>>
       /\ \A i \in 1..NSegs :
            Parse(cfg, stripZWS(text'))[i] =
              IF i = activeSegment + 1 THEN placeholderValues[i]
              ELSE currentValues(State)[i]
       /\ placeholderValues[activeSegment + 1] # <<>>]_vars

\* Backspace has reset the first operand of "1 / 1" and left the operator
\* and the second operand as they were.
C14_Witness ==
  /\ cfg = "calc" /\ focused
  /\ activeSegment = 0 /\ segmentBuffer = <<>>
  /\ currentValues(State) = << <<"-", "-">>, <<"/">>, <<"1">> >>
  /\ Emitted("preventDefault") # {}
  /\ \E k \in Emitted("segmentchange") :
       emitted[k].index = 0 /\ emitted[k].value = <<"-", "-">>

\* The active segment is numeric with both min and max (min <= max).
BoundedNumeric(seg) ==
  /\ seg.type = "" /\ ~seg.onClick /\ seg.options = <<>>
  /\ seg.min # <<>> /\ seg.max # <<>> /\ seg.min[1] <= seg.max[1]

\* The step is increment() (direction 1) or decrement() (direction -1),
\* called by the page or by ArrowUp / ArrowDown.
Adjusts(direction) ==
  \/ Becomes(adjustSegment(State, activeSegment, direction))
  \/ /\ attached /\ focused
     /\ Becomes(onKeydown(State, IF direction = 1 THEN "ArrowUp" ELSE "ArrowDown", FALSE))

\* The value a clamped segment shows after the step, against what it held.
ClampedAfter(seg, old, new, direction) ==
  /\ AllDigits(new)
  /\ seg.min[1] <= BufferValue(new, 10) /\ BufferValue(new, 10) <= seg.max[1]
  /\ (AllDigits(old) /\ BufferValue(old, 10) = seg.max[1] /\ direction = 1)
       => BufferValue(new, 10) = seg.max[1]
  /\ (AllDigits(old) /\ BufferValue(old, 10) = seg.min[1] /\ direction = 0 - 1)
       => BufferValue(new, 10) = seg.min[1]

\* C15: increment/decrement clamp.  For a numeric segment with min and max,
\* after increment() or decrement() the segment's numeric value lies within
\* [min, max], whatever it held before (placeholder, unparsable text or an
\* out-of-range value); increment at max leaves it at max and decrement at
\* min leaves it at min.
C15_AdjustClamp ==
  [][\A direction \in {1, 0 - 1} :
       (/\ nEvents' = nEvents + 1
        /\ \E k \in 1..Len(emitted') : emitted'[k].type = "change"
        /\ HasSeg(activeSegment)
        /\ BoundedNumeric(Segs[activeSegment + 1])
        /\ Adjusts(direction)) =>
         ClampedAfter(Segs[activeSegment + 1],
                      IF text = <<>> THEN placeholderValues[activeSegment + 1]
                      ELSE currentValues(State)[activeSegment + 1],
                      Parse(cfg, stripZWS(text'))[activeSegment + 1],
                      direction)]_vars

\* An adjustment of the out-of-range octet 999 has written 255.
C15_Witness ==
  /\ cfg = "ipv4"
  /\ text = <<"2", "5", "5", ".", "0", ".", "x", ".", "2", "5", "5">>
  /\ \E k \in Emitted("segmentchange") :
       emitted[k].index = 0 /\ emitted[k].value = <<"2", "5", "5">>

\* The 0-based position of v in options, 0 when v is not an option.
PositionOf(options, v) ==
  IF \E k \in 1..Len(options) : options[k] = v
  THEN Min({k \in 1..Len(options) : options[k] = v}) - 1
  ELSE 0

\* options[(k + direction) mod m] for the position k of v.
Rotated(options, v, direction) ==
  LET k == PositionOf(options, v) + direction
  IN IF k < 0 THEN options[Len(options)]
     ELSE IF k >= Len(options) THEN options[1]
     ELSE options[k + 1]

\* The value the active segment shows.
ActiveValue ==
  IF text = <<>> THEN placeholderValues[activeSegment + 1]
  ELSE currentValues(State)[activeSegment + 1]

\* The active segment is enumerated and shows one of its options.
AtOption ==
  /\ HasSeg(activeSegment) /\ Segs[activeSegment + 1].options # <<>>
  /\ text # <<>>
  /\ \E k \in 1..Len(Segs[activeSegment + 1].options) :
       Segs[activeSegment + 1].options[k] = ActiveValue

\* C16: enum cycling is circular.  For an enumerated segment with m options
\* showing options[k], increment yields options[(k+1) mod m] and decrement
\* options[(k-1) mod m] (with + - * /: decrement at + gives /, increment at /
\* gives +); a value that is not an option (the placeholder) counts as index
\* 0 before rotating; increment followed by decrement restores the value.
C16_EnumCycling ==
  /\ [][\A direction \in {1, 0 - 1} :
          (/\ nEvents' = nEvents + 1
           /\ \E k \in 1..Len(emitted') : emitted'[k].type = "change"
           /\ HasSeg(activeSegment) /\ Segs[activeSegment + 1].options # <<>>
           /\ Adjusts(direction)) =>
            /\ Parse(cfg, stripZWS(text'))[activeSegment + 1]
                 = Rotated(Segs[activeSegment + 1].options, ActiveValue, direction)
            /\ (ActiveValue = <<"+">> /\ direction = 0 - 1) =>
                 Parse(cfg, stripZWS(text'))[activeSegment + 1] = <<"/">>
            /\ (ActiveValue = <<"/">> /\ direction = 1) =>
                 Parse(cfg, stripZWS(text'))[activeSegment + 1] = <<"+">>]_vars
  /\ [](AtOption =>
          currentValues(adjustSegment(adjustSegment(State, activeSegment, 1),
                                      activeSegment, 0 - 1))[activeSegment + 1]
            = ActiveValue)

\* increment() on the operator of "1 / 1" has wrapped around to "+".
C16_Witness ==
  /\ cfg = "calc" /\ nEvents = 2 /\ activeSegment = 1
  /\ text = <<"1", " ", "+", " ", "1">>
  /\ \E k \in Emitted("segmentchange") : emitted[k].index = 1 /\ emitted[k].value = <<"+">>

\* Segment j can be reached with the keyboard.
Reachable(j) ==
  (Segs[j + 1].type # "action" /\ ~Segs[j + 1].onClick) \/ Segs[j + 1].selectable

AtFirstNavigable ==
  /\ HasSeg(activeSegment) /\ Reachable(activeSegment)
  /\ \A j \in 0..(activeSegment - 1) : ~Reachable(j)

AtLastNavigable ==
  /\ HasSeg(activeSegment) /\ Reachable(activeSegment)
  /\ \A j \in (activeSegment + 1)..(NSegs - 1) : ~Reachable(j)

\* The step is the keydown of key on the focused field.
Pressed(key, shiftKey) ==
  /\ attached /\ focused /\ nEvents' = nEvents + 1 /\ text' = text
  /\ Becomes(onKeydown(State, key, shiftKey))

Suppressed == \E k \in 1..Len(emitted') : emitted'[k].type = "preventDefault"

HostPlacedSelection ==
  \/ selection' = selection
  \/ selection'[1] = selection'[2]

\* C18: deferred selection.  The selection span asserted in response to a
\* focus or click event is not applied while the handler runs but by a
\* callback on a later turn; every other mutation made in response to the
\* event (text write, validity update, activeSegment and segmentBuffer
\* update) is done when the handler returns, so the later callback changes
\* none of them.
C18_DeferredSelection ==
  [][/\ (attached /\ nEvents' = nEvents + 1 /\ (Focus \/ Click)) => HostPlacedSelection
     /\ (nEvents' = nEvents + 1 /\ timers # <<>> /\ TimerFires) =>
          UNCHANGED <<text, customValidity, activeSegment, segmentBuffer>>]_vars

\* C19: each range {start, end, value} returned by the instance's
\* getSegmentRanges() is expressed in offsets into the displayed text: in
\* every reachable state with non-empty text, the text's characters
\* [start, end) are value, also for a text that was pre-set on the field
\* before attachment and has not yet been rewritten by the controller.
C19_RangesIntoDisplayedText ==
  text # <<>> =>
    \A i \in 1..Len(instanceRanges(State)) :
      Slice(text, instanceRanges(State)[i].start, instanceRanges(State)[i].end)
        = instanceRanges(State)[i].value

\* ------------------------------------------------------------------------
\* Claims about repeated values (checked under SpecRepeat)
\* ------------------------------------------------------------------------
\* The lengths of the literals between the slots of a preset's format.
Literals(preset) == IF preset = "dateRange" THEN <<1, 1, 3, 1, 1>> ELSE <<1, 1>>

\* Where slot i of the formatted string starts: after the slots and the
\* literals before it.
RECURSIVE SlotStart(_, _, _)
SlotStart(preset, values, i) ==
  IF i = 1 THEN 0
  ELSE SlotStart(preset, values, i - 1) + Len(values[i - 1]) + Literals(preset)[i - 1]

\* C20: the ordered, cursor-advancing scan disambiguates repeated identical
\* values.  When two or more segments hold the same string (two segments
\* both showing "00", or the two halves of the date-range preset both at
\* yyyy/mm/dd), range i is the i-th slot of the formatted string in
\* left-to-right order: no two segments are assigned the same occurrence and
\* each range lies at its own segment's position.
C20_RepeatedValues ==
  fnRet # NONE =>
    LET values == Parse(fnArgs.preset, fnArgs.value)
        ranges == fnRet[1]
    IN /\ Len(ranges) = Len(values)
       /\ \A i \in 1..Len(values) :
            /\ ranges[i].start = SlotStart(fnArgs.preset, values, i)
            /\ ranges[i].end = ranges[i].start + Len(values[i])
            /\ Slice(fnArgs.value, ranges[i].start, ranges[i].end) = values[i]
       /\ \A i \in 1..Len(values) : \A j \in 1..Len(values) :
            (i < j /\ values[i] = values[j]) => ranges[i].end <= ranges[j].start

\* Both halves of a date range at yyyy-mm-dd: the second yyyy, mm and dd
\* were found in the second half.
C20_Witness ==
  /\ fnRet # NONE
  /\ fnArgs.preset = "dateRange"
  /\ Parse("dateRange", fnArgs.value)
       = << <<"y", "y", "y", "y">>, <<"m", "m">>, <<"d", "d">>,
            <<"y", "y", "y", "y">>, <<"m", "m">>, <<"d", "d">> >>
  /\ fnRet[1][4].start = 13 /\ fnRet[1][5].start = 18 /\ fnRet[1][6].start = 21

\* ------------------------------------------------------------------------
\* Claims about the public methods and the event subscriptions
\* ------------------------------------------------------------------------
\* C21: focusSegment(index) never fails for any integer index.  An
\* out-of-bounds index is clamped into [0, n-1]; afterwards activeSegment is
\* in [0, n-1], segmentBuffer is empty, and when the target is a
\* non-selectable action segment and an editable segment exists the active
\* segment is an editable segment rather than the action segment.
C21_FocusSegmentClamped ==
  [][\A index \in (0 - 1)..NSegs :
       (nEvents' = nEvents + 1 /\ Becomes(focusSegment(State, index))) =>
         /\ activeSegment' \in 0..(NSegs - 1)
         /\ segmentBuffer' = <<>>
         /\ LET target == Clamp(index, 0, NSegs - 1)
            IN IF /\ isActionSegment(target) /\ ~isSelectable(target)
                  /\ \E i \in 0..(NSegs - 1) : ~isActionSegment(i)
               THEN ~isActionSegment(activeSegment')
               ELSE activeSegment' = target]_vars

\* focusSegment with an index at or past the icon of the date picker has
\* left the first segment for the day segment, the nearest editable one.
C21_Witness ==
  /\ cfg = "dateWithPicker" /\ nEvents = 1
  /\ activeSegment = 2 /\ segmentBuffer = <<>>
  /\ emitted = <<Ev("segmentblur", 0, <<>>), Ev("segmentfocus", 2, <<>>)>>

C23_DestroyDetaches ==
  [][/\ (nEvents' = nEvents + 1 /\ Becomes(destroy(State))) => ~attached'
     /\ (/\ ~attached /\ nEvents' = nEvents + 1
         /\ ~(timers # <<>> /\ TimerFires)
         /\ ~CallFocusSegment /\ ~CallSetSegmentValue /\ ~CallAdjust) =>
          /\ UNCHANGED <<text, activeSegment, segmentBuffer, customValidity>>
          /\ emitted' = <<>>]_vars

\* The input of a destroyed instance has gained focus and its empty text
\* has not been filled with the placeholder.
C23_Witness ==
  /\ ~attached /\ focused /\ nEvents >= 2
  /\ text = <<>> /\ emitted = <<>>

\* ------------------------------------------------------------------------
\* Claims about notifications and rejected keystrokes
\* ------------------------------------------------------------------------
\* The active segment takes the typed key: an option starts with it, or its
\* pattern admits it and the buffer with the key does not exceed max.
AcceptsKey(seg, key) ==
  /\ seg.type # "action" /\ ~seg.onClick
  /\ IF seg.options # <<>>
     THEN \E k \in 1..Len(seg.options) :
            Len(seg.options[k]) >= 1 /\ ToLowerChar(seg.options[k][1]) = ToLowerChar(key)
     ELSE /\ seg.pattern # "none" => PatternTest(seg.pattern, key)
          /\ ~Overflows(seg, key)

\* The handler announced exactly one segmentchange, for segment index with
\* the value the segment's slot then parses to (up to the format's padding).
OneChange(index) ==
  /\ Cardinality({k \in 1..Len(emitted') : emitted'[k].type = "segmentchange"}) = 1
  /\ \A k \in 1..Len(emitted') :
       emitted'[k].type = "segmentchange" => emitted'[k].index = index

\* C24: a segmentchange(index, value) notification is emitted on every
\* committed mutation of a segment value: each accepted typed character,
\* each increment, each decrement, each Backspace, each enum pick and each
\* setSegmentValue emits exactly one such notification naming the segment
\* that was written.
C24_SegmentChange ==
  [][/\ \A key \in Keys :
          (/\ attached /\ focused /\ nEvents' = nEvents + 1
           /\ HasSeg(activeSegment) /\ AcceptsKey(Segs[activeSegment + 1], key)
           /\ Becomes(onKeydown(State, key, FALSE))) => OneChange(activeSegment)
     /\ (/\ attached /\ focused /\ nEvents' = nEvents + 1
         /\ Becomes(onKeydown(State, "Backspace", FALSE))) => OneChange(activeSegment)
     /\ \A direction \in {1, 0 - 1} :
          (/\ nEvents' = nEvents + 1
           /\ HasSeg(activeSegment) /\ ~isActionSegment(activeSegment)
           /\ Segs[activeSegment + 1].type # "text"
           /\ Adjusts(direction)) => OneChange(activeSegment)
     /\ \A index \in 0..(NSegs - 1) : \A newValue \in SetValues :
          (nEvents' = nEvents + 1 /\ Becomes(setSegmentValue(State, index, newValue)))
            => OneChange(index)]_vars

\* An enum pick: "/" typed on the operator of the calculator's placeholder
\* text picked the option "/", announced it once for segment 1 and moved on.
C24_Witness ==
  /\ cfg = "calc" /\ focused
  /\ text = <<"-", "-", " ", "/", " ", "-", "-">>
  /\ activeSegment = 2
  /\ Cardinality(Emitted("segmentchange")) = 1
  /\ \E k \in Emitted("segmentchange") :
       emitted[k].index = 1 /\ emitted[k].value = <<"/">>

\* The active segment rejects the printable key: it is an action segment, or
\* it is no enum segment and its pattern does not admit the character.
Rejects(key) ==
  \/ ~HasSeg(activeSegment)
  \/ isActionSegment(activeSegment)
  \/ /\ Segs[activeSegment + 1].options = <<>>
     /\ Segs[activeSegment + 1].pattern # "none"
     /\ ~PatternTest(Segs[activeSegment + 1].pattern, key)

\* C25: a printable keystroke that is rejected, because the active segment's
\* pattern does not admit the character or because the active segment is an
\* action segment, is consumed without effect: the displayed text,
\* activeSegment, segmentBuffer and the validity state are the same after
\* the keystroke as before it.
C25_RejectedKey ==
  [][\A key \in Keys :
       (/\ attached /\ focused /\ nEvents' = nEvents + 1
        /\ Rejects(key)
        /\ Becomes(onKeydown(State, key, FALSE))) =>
         UNCHANGED <<text, activeSegment, segmentBuffer, customValidity>>]_vars

\* ------------------------------------------------------------------------
\* Claims about setSegmentValue, clicks and navigation
\* ------------------------------------------------------------------------
\* What getSegmentValue(i) returns for the text str.
SegmentValueIn(str, i) == Parse(cfg, stripZWS(str))[i + 1]

\* The slot shows the written value, possibly padded by the format.
Reflects(shown, written) ==
  shown \in {written, PadStart(written, 2, "0"), PadStart(written, 4, "0")}

\* C26: setSegmentValue(index, value) writes only the named slot.  Afterwards
\* getSegmentValue(index) reflects the written value, every other segment's
\* value is unchanged, activeSegment is index, segmentBuffer is empty, an
\* input notification followed by a change notification has been emitted,
\* and validity has been re-evaluated against the new text.
C26_SetSegmentValue ==
  [][\A index \in 0..(NSegs - 1) : \A newValue \in SetValues :
       (nEvents' = nEvents + 1 /\ Becomes(setSegmentValue(State, index, newValue))) =>
         /\ Reflects(SegmentValueIn(text', index), newValue)
         /\ \A j \in 0..(NSegs - 1) :
              j # index => SegmentValueIn(text', j) = SegmentValueIn(text, j)
         /\ activeSegment' = index
         /\ segmentBuffer' = <<>>
         /\ \E a \in 1..Len(emitted') : \E b \in 1..Len(emitted') :
              a < b /\ emitted'[a].type = "input" /\ emitted'[b].type = "change"
         /\ customValidity' =
              IF hasPlaceholder(Parse(cfg, stripZWS(text'))) THEN InvalidMessage ELSE ""]_vars

\* The segment a click maps to: the segment at the position estimated from
\* the mousedown when focus has just filled the text, else the segment at
\* the cursor position pos.
ClickTarget(pos) ==
  IF placeholderJustSet
  THEN IF pendingClickX # <<>>
       THEN getCursorSegment(charPosFromX(State, pendingClickX[1]), instanceRanges(State))
       ELSE activeSegment
  ELSE getCursorSegment(pos, instanceRanges(State))

\* C27: a click that maps to a selectable action segment is handled like a
\* click on any ordinary segment: activeSegment is set to that segment,
\* segmentBuffer is cleared and the selection is asserted over it (by a
\* queued callback); only clicks that map to a non-selectable action segment
\* go through the activate-or-reroute decision.
C27_SelectableClick ==
  [][\A pos \in 0..Len(text) :
       (/\ attached /\ focused /\ nEvents' = nEvents + 1
        /\ isActionSegment(ClickTarget(pos)) /\ isSelectable(ClickTarget(pos))
        /\ Becomes(onClickOrFocus([State EXCEPT !.selection = <<pos, pos>>]))) =>
         /\ activeSegment' = ClickTarget(pos)
         /\ segmentBuffer' = <<>>
         /\ timers' # <<>>
         /\ Emitted("onClick")' = {}]_vars

\* ------------------------------------------------------------------------
\* C28: for every built-in preset, when the field shows the all-placeholder
\* text, the range computed for segment i is the slot into which format put
\* placeholder i (never characters of the format's fixed text), and a
\* highlighted selection is the slot of the active segment.
\* ------------------------------------------------------------------------
\* The placeholder values with the one of segment i replaced, unit for unit,
\* by a unit that occurs in no format and no placeholder.
Marked(i) ==
  [placeholderValues EXCEPT ![i + 1] = [j \in 1..Len(@) |-> "#"]]

\* Where format puts the value of segment i: the offset of the marker.
SlotOf(i) == IndexOf(formatGuarded(Marked(i)), Marked(i)[i + 1], 0)

SlotRange(i) ==
  [start |-> SlotOf(i), end |-> SlotOf(i) + Len(placeholderValues[i + 1]),
   value |-> placeholderValues[i + 1]]

C28_PlaceholderSlots ==
  (text # <<>> /\ text = formattedPlaceholder) =>
    /\ Len(instanceRanges(State)) = NSegs
    /\ \A i \in 0..(NSegs - 1) :
         /\ instanceRanges(State)[i + 1] = SlotRange(i)
         /\ Slice(text, SlotOf(i), SlotRange(i).end) = placeholderValues[i + 1]
    /\ selection[1] < selection[2] =>
         selection = <<SlotRange(activeSegment).start, SlotRange(activeSegment).end>>

\* The case of the rgba preset: the fourth slot is highlighted.
C28_Witness ==
  /\ cfg = "rgba"
  /\ text = <<"r", "g", "b", "a", "(", "-", "-", ",", " ", "-", "-", ",", " ",
              "-", "-", ",", " ", "-", "-", ")">>
  /\ activeSegment = 3
  /\ selection = <<17, 19>>

\* ------------------------------------------------------------------------
\* C29: in every built-in preset no typed character, enum pick, increment
\* or decrement makes the value of an editable segment equal to its
\* placeholder: the value such a key writes is not the placeholder, every
\* segment that was filled before the key is filled after it, and a blur
\* does not clear a text in which a segment is filled.
\* ------------------------------------------------------------------------
\* Segment i of the record s shows a value that is not its placeholder.
FilledIn(s, i) ==
  /\ s.text # <<>>
  /\ ~isActionSegment(i)
  /\ currentValues(s)[i + 1] # placeholderValues[i + 1]

\* What a printable key or an arrow-up / arrow-down key makes of the state.
Edits ==
  {onKeydown(State, key, FALSE) : key \in PresetKeys \cup {"ArrowUp", "ArrowDown"}}

WritesNoPlaceholder(after) ==
  \A k \in 1..Len(after.emitted) :
    after.emitted[k].type = "segmentchange" =>
      /\ after.emitted[k].value # placeholderValues[after.emitted[k].index + 1]
      /\ FilledIn(after, after.emitted[k].index)

C29_PlaceholderNeverValue ==
  (attached /\ focused) =>
    /\ \A after \in Edits :
         /\ WritesNoPlaceholder(after)
         /\ \A i \in 0..(NSegs - 1) : FilledIn(State, i) => FilledIn(after, i)
    /\ (\E i \in 0..(NSegs - 1) : FilledIn(State, i)) => onBlurOut(State).text = text

\* The case of a decimal segment: the alpha of rgba stepped down from its
\* placeholder shows 0.9.
C29_Witness ==
  /\ cfg = "rgba"
  /\ focused
  /\ activeSegment = 3
  /\ text = <<"r", "g", "b", "a", "(", "-", "-", ",", " ", "-", "-", ",", " ",
              "-", "-", ",", " ", "0", ".", "9", ")">>
  /\ \E k \in 1..Len(emitted) : emitted[k] = Ev("segmentchange", 3, <<"0", ".", "9">>)

\* ------------------------------------------------------------------------
\* C30: ArrowRight or Tab on segment i makes the smallest j > i that is
\* editable or a selectable action segment the active segment, ArrowLeft or
\* Shift+Tab the largest such j < i; when there is none the active segment
\* stays, and no navigation key makes a non-selectable action segment active.
\* ------------------------------------------------------------------------
Ahead == {j \in (activeSegment + 1)..(NSegs - 1) : Reachable(j)}

Behind == {j \in 0..(activeSegment - 1) : Reachable(j)}

C30_NavigationTarget ==
  [][/\ \A key \in {"ArrowRight", "Tab"} :
          Pressed(key, FALSE) =>
            /\ activeSegment' = IF Ahead # {} THEN Min(Ahead) ELSE activeSegment
            /\ activeSegment' # activeSegment => Reachable(activeSegment')
     /\ \A key \in {"ArrowLeft", "Tab"} :
          Pressed(key, key = "Tab") =>
            /\ activeSegment' = IF Behind # {} THEN Max(Behind) ELSE activeSegment
            /\ activeSegment' # activeSegment => Reachable(activeSegment')]_vars

\* ArrowRight on the month of the toolbar has skipped the button that is not
\* selectable and made the day the active segment.
C30_Witness ==
  /\ cfg = "toolbar"
  /\ focused
  /\ activeSegment = 2
  /\ emitted = <<Ev("preventDefault", NULL, <<>>), Ev("segmentblur", 0, <<>>),
                 Ev("segmentfocus", 2, <<>>)>>

\* ------------------------------------------------------------------------
\* Claims about typing, clicks on an empty field and the active segment
\* ------------------------------------------------------------------------
\* The options equal to the key, and those that start with it, ignoring case.
ExactAt(options, key) ==
  {k \in 1..Len(options) : ToLower(options[k]) = ToLower(<<key>>)}

PrefixAt(options, key) ==
  {k \in 1..Len(options) :
     Len(options[k]) >= 1 /\ ToLowerChar(options[k][1]) = ToLowerChar(key)}

Picked(options, key) ==
  IF ExactAt(options, key) # {} THEN <<options[Min(ExactAt(options, key))]>>
  ELSE IF PrefixAt(options, key) # {} THEN <<options[Min(PrefixAt(options, key))]>>
  ELSE <<>>

\* A printable key typed while an enum segment is active.
TypedOnEnum(key) ==
  /\ attached /\ focused /\ nEvents' = nEvents + 1
  /\ HasSeg(activeSegment) /\ ~isActionSegment(activeSegment)
  /\ Segs[activeSegment + 1].options # <<>>
  /\ Becomes(onKeydown(State, key, FALSE))

UnderMouse ==
  getCursorSegment(charPosFromX(State, pendingClickX[1]), instanceRanges(State))

\* The click that follows mousedown and focus on an empty field, while the
\* deferred focus callback is still pending.
ClickAfterMouseFocus ==
  /\ attached /\ focused /\ nEvents' = nEvents + 1
  /\ placeholderJustSet /\ pendingClickX # <<>>
  /\ timers # <<>> /\ Head(timers).kind = "focusIn"
  /\ Click

\* The deferred focus callback running right after that click.
FocusCallbackAfterClick ==
  /\ attached /\ focused /\ nEvents' = nEvents + 1
  /\ ~placeholderJustSet /\ pendingClickX = <<>>
  /\ text = formattedPlaceholder
  /\ timers # <<>> /\ Head(timers).kind = "focusIn"
  /\ TimerFires

SelectedRange(i) ==
  <<instanceRanges(State')[i + 1].start, instanceRanges(State')[i + 1].end>>

EditableIndexes == {i \in 0..(NSegs - 1) : ~isActionSegment(i)}

\* C33: in every reachable state activeSegment is an index of the descriptor
\* list and, when the list has an editable segment, it is not an action
\* segment that cannot be selected; this also after a blur that resets the
\* state and for a format whose first segment is an action segment.
C33_ActiveSegmentEditable ==
  /\ activeSegment \in 0..(NSegs - 1)
  /\ EditableIndexes # {} =>
       ~(isActionSegment(activeSegment) /\ ~isSelectable(activeSegment))

\* ------------------------------------------------------------------------
\* C34
\* ------------------------------------------------------------------------
\* C34: validity is in sync with the text.  In every reachable state, that
\* is whenever an event handler or a public operation has returned, the
\* custom validity message is non-empty iff the text is non-empty and some
\* non-action segment's value equals its placeholder; this includes
\* keystrokes that are rejected or discarded and increment/decrement calls
\* that change nothing.
C34_ValidityInSync ==
  /\ customValidity \in {"", InvalidMessage}
  /\ customValidity # "" <=>
       /\ text # <<>>
       /\ \E i \in 1..NSegs : /\ ~isActionSegment(i - 1)
                              /\ currentValues(State)[i] = placeholderValues[i]

\* ------------------------------------------------------------------------
\* C35
\* ------------------------------------------------------------------------
\* The deferred callback that leaves no callback pending.
LastCallbackRuns ==
  /\ attached /\ focused /\ nEvents' = nEvents + 1
  /\ timers # <<>> /\ TimerFires /\ timers' = <<>>

\* C35: selection consistency under interleaving.  For every interleaving of
\* keydown events with the callbacks deferred by focus and click, once all
\* pending callbacks have run the selection is the current range of
\* activeSegment in the current text: no callback applies a span computed
\* from ranges or an index that a later event has made stale.
C35_SelectionAfterCallbacks ==
  [][LastCallbackRuns => selection' = SelectedRange(activeSegment')]_vars

\* ------------------------------------------------------------------------
\* C36
\* ------------------------------------------------------------------------
\* The segment holds whole numbers and declares both bounds.
BoundedInteger(seg) == BoundedNumeric(seg) /\ ~isDecimalSegment(seg)

WithinBounds(seg, v) ==
  /\ ParseInt(v, radixOf(seg)) # NaN
  /\ seg.min[1] <= ParseInt(v, radixOf(seg))[1]
  /\ ParseInt(v, radixOf(seg))[1] <= seg.max[1]

\* C36: after any sequence of typed digits, Backspace, increment and
\* decrement that starts from the placeholder state, an integer-valued
\* segment that declares both min and max holds its placeholder or a string
\* whose numeric value in the segment's radix lies within [min, max].
C36_TypedWithinBounds ==
  text # <<>> =>
    \A i \in 1..NSegs :
      BoundedInteger(Segs[i]) =>
        \/ currentValues(State)[i] = placeholderValues[i]
        \/ WithinBounds(Segs[i], currentValues(State)[i])

\* ------------------------------------------------------------------------
\* C37
\* ------------------------------------------------------------------------
\* The active segment is an integer or hex segment with a max and no
\* maxLength, and the field has focus.
OnGrowingSegment ==
  /\ attached /\ focused
  /\ HasSeg(activeSegment) /\ ~isActionSegment(activeSegment)
  /\ Segs[activeSegment + 1].options = <<>>
  /\ Segs[activeSegment + 1].max # <<>>
  /\ Segs[activeSegment + 1].maxLength = <<>>
  /\ ~isDecimalSegment(Segs[activeSegment + 1])

\* The handler of key, run in the current state, writes the buffer extended
\* by key into the active segment.
WouldAccept(key) ==
  \E k \in 1..Len(onKeydown(State, key, FALSE).emitted) :
    onKeydown(State, key, FALSE).emitted[k]
      = Ev("segmentchange", activeSegment, segmentBuffer \o <<key>>)

\* C37: no dead end while typing.  On an integer or hex segment with a max
\* and no maxLength, focus never rests with a non-empty buffer where every
\* further digit would overflow max: whenever an accepted digit has not
\* triggered auto-advance, the digit 0 typed next is accepted.
C37_NoDeadEnd ==
  (OnGrowingSegment /\ segmentBuffer # <<>>) => WouldAccept("0")

\* ------------------------------------------------------------------------
\* C38
\* ------------------------------------------------------------------------
\* The handler that ran emitted segmentblur(i) and later segmentfocus(j).
BlurThenFocus(i, j) ==
  \E k \in 1..Len(emitted') : \E l \in (k + 1)..Len(emitted') :
    /\ emitted'[k] = Ev("segmentblur", i, <<>>)
    /\ emitted'[l] = Ev("segmentfocus", j, <<>>)

\* C38: every change of activeSegment from i to another index j, by keyboard
\* navigation, auto-advance, focusSegment or a click, emits segmentblur(i)
\* followed by segmentfocus(j), so that a listener of the two notifications
\* knows which segment is active.
C38_FocusNotifications ==
  [][(attached /\ nEvents' = nEvents + 1 /\ activeSegment' # activeSegment) =>
       BlurThenFocus(activeSegment, activeSegment')]_vars

\* ------------------------------------------------------------------------
\* C39
\* ------------------------------------------------------------------------
\* C39: the value carried by a segmentchange notification for index equals
\* what getSegmentValue(index) returns right after the mutation that emitted
\* it, for typed commits, increment/decrement, Backspace and enum picks in
\* every built-in preset, also those whose format pads or upper-cases.
C39_ChangeCarriesValue ==
  [][(attached /\ nEvents' = nEvents + 1) =>
       \A k \in 1..Len(emitted') :
         emitted'[k].type = "segmentchange" =>
           emitted'[k].value = SegmentValueIn(text', emitted'[k].index)]_vars

\* ------------------------------------------------------------------------
\* C40
\* ------------------------------------------------------------------------
\* A callback deferred by a focus or click before destroy() runs after it.
CallbackAfterDestroy ==
  /\ ~attached /\ nEvents' = nEvents + 1
  /\ timers # <<>> /\ TimerFires

\* C40: when destroy() is called while a deferred selection callback of an
\* earlier focus or click is pending, the callback, when it runs, changes no
\* controller state (activeSegment, segmentBuffer, the flags), touches
\* neither the selection nor the style class of the field, and emits no
\* segmentfocus or segmentblur notification.
C40_DestroyCancelsCallbacks ==
  [][CallbackAfterDestroy =>
       /\ UNCHANGED <<activeSegment, segmentBuffer, placeholderJustSet, pendingClickX>>
       /\ UNCHANGED <<selection, actionClass>>
       /\ \A k \in 1..Len(emitted') :
            emitted'[k].type \notin {"segmentfocus", "segmentblur"}]_vars

=============================================================================
